---- MODULE Spec2Model ----
(***************************************************************************)
(* recall: the incremental indexer (background_index), the file-state      *)
(* store (IndexState), the index writer/reader (SessionIndex over tantivy) *)
(* and the foreground that polls the indexer channel                       *)
(* (App::poll_index_updates).                                              *)
(*                                                                         *)
(* One transcript file is followed individually; the rest of the           *)
(* discovered files are a block of bulkN files that never change, parse to *)
(* one message each and are processed in a fixed order, so that passes of  *)
(* 200 files and more (the periodic commit) are reachable.                 *)
(***************************************************************************)
EXTENDS Integers, Sequences, FiniteSets, TLC

VARIABLES
    \* ---- disk: what survives a process
    fs,             \* transcript files: path -> [ver, n]; ver is the (mtime,size) stamp, n the parse outcome
    bulkN,          \* number of bulk files on disk
    idxDocs,        \* committed documents of the followed files
    idxBulk,        \* number of bulk files (a prefix of their order) whose document is committed
    idxGen,         \* number of commits that succeeded
    fssDisk,        \* state.json: [files: path -> stamp (0 = no entry), bulk: entries of bulk files, version]
    \* ---- the indexer thread
    pc,             \* position in background_index ("off": no process)
    state,          \* IndexState in memory, same shape as fssDisk
    order,          \* the followed files of files_to_index, in list order
    lead,           \* bulk files of files_to_index that come before them
    nBulkTodo,      \* bulk files in files_to_index
    i,              \* files processed so far in the loop
    writer,         \* "none" | "alive" | "dead"
    wDel,           \* followed files with a buffered delete_term
    wAdd,           \* buffered documents of the followed files
    \* ---- the channel
    chan,           \* messages sent and not yet received
    \* ---- the foreground (App)
    appAlive,       \* the App (and with it the receiver) exists
    index_rx,       \* App.index_rx is Some
    status,
    total_sessions,
    indexing,
    index_error,
    reader,         \* the reader's snapshot: [gen, docs, bulk]
    searchGen,      \* generation of the snapshot the last search ran on
    \* ---- history
    run,            \* processes launched so far
    sentLog,        \* every send the indexer attempted in this run, in order
    pass,           \* observations of the indexer's current pass
    seen,           \* observations of the foreground in the current run
    carry,          \* observations carried from one run to the next
    \* ---- SessionIndex::search / recent on one reader snapshot
    snapDocs,       \* the documents of the snapshot a query runs on
    limit,          \* the limit argument
    results,        \* what the calls made so far returned, in call order
    \* ---- the parsers on one session file
    source,         \* which parser the file's path selects
    lines,          \* the records of the file, in file order
    parsed,         \* the Sessions the parse calls made so far returned
    \* ---- ToolOutput::new
    toolIn,         \* the arguments of the call
    toolOut,        \* what it returned
    \* ---- parse_selector
    selIn,          \* the selector string, a sequence of characters
    selOut,         \* what parse_selector returned
    \* ---- run_read
    readIn,             \* the arguments of the call and the session file
    readPc,             \* where run_read stands
    disable_truncation, \* the process-wide DISABLE_TRUNCATION
    readSession,        \* the Session parsed, <<>> before
    readOut,            \* what the call printed and returned
    \* ---- the App's result list
    app_index,      \* the documents of the App's index reader
    query,          \* App.query, a sequence of characters
    cursor,         \* App.cursor
    app_results,    \* App.results
    selected,       \* App.selected
    search_scope,   \* App.search_scope
    search_pending, \* App.search_pending
    should_quit,    \* App.should_quit
    app_last        \* the last handler run, and the session selected before it

vars == <<fs, bulkN, idxDocs, idxBulk, idxGen, fssDisk, pc, state, order, lead,
          nBulkTodo, i, writer, wDel, wAdd, chan, appAlive, index_rx, status,
          total_sessions, indexing, index_error, reader, searchGen, run,
          sentLog, pass, seen, carry,
          snapDocs, limit, results, source, lines, parsed, toolIn, toolOut,
          selIn, selOut, readIn, readPc, disable_truncation, readSession, readOut,
          app_index, query, cursor, app_results, selected, search_scope,
          search_pending, should_quit, app_last>>

indexerVars == <<fs, bulkN, idxDocs, idxBulk, idxGen, fssDisk, pc, state, order, lead,
                 nBulkTodo, i, writer, wDel, wAdd, chan, appAlive, index_rx, status,
                 total_sessions, indexing, index_error, reader, searchGen, run,
                 sentLog, pass, seen, carry>>
searchVars == <<snapDocs, limit, results>>
parseVars == <<source, lines, parsed>>
toolVars == <<toolIn, toolOut>>
selVars == <<selIn, selOut>>
readVars == <<readIn, readPc, disable_truncation, readSession, readOut>>
uiVars == <<app_index, query, cursor, app_results, selected, search_scope,
            search_pending, should_quit, app_last>>
cliVars == <<selVars, readVars, uiVars>>
diskVars == <<fs, bulkN, idxDocs, idxBulk, idxGen, fssDisk>>
idxVars == <<idxDocs, idxBulk, idxGen>>
listVars == <<order, lead, nBulkTodo>>
bufVars == <<wDel, wAdd>>
appVars == <<appAlive, index_rx, status, total_sessions, indexing, index_error,
             reader, searchGen>>

\* ------------------------------------------------------------------ bounds
Files == {"a"}      \* the transcript followed individually
MaxMsgs == 2        \* messages of a parsed session
NFill == 200        \* size of the block of bulk files
MaxRuns == 2        \* processes launched
ProgressEvery == 50
CommitEvery == 200

ParseErr == -1
Contents == ParseErr .. MaxMsgs    \* parse outcome of a file: an error or a number of messages

Max(a, b) == IF a >= b THEN a ELSE b
Min(a, b) == IF a <= b THEN a ELSE b

MaxOf(S) == CHOOSE x \in S : \A y \in S : y <= x

Perms(S) == {s \in [1 .. Cardinality(S) -> S] : \A x \in S : \E k \in DOMAIN s : s[k] = x}

\* ------------------------------------------------------------ file state store
\* IndexState::CURRENT_VERSION
CURRENT_VERSION == 1

\* a store without entries, as load makes it when there is no state file
EmptyState == [files |-> [f \in Files |-> 0], bulk |-> 0, version |-> CURRENT_VERSION]

\* IndexState::load of an existing state file: the document as serde reads
\* it, field by field
load(doc) == [files |-> doc.files, bulk |-> doc.bulk, version |-> doc.version]

\* get_file_state: the (mtime, size) stamp of a file
get_file_state(f) == fs[f].ver

\* IndexState::needs_reindex
needs_reindex(st, f) == st.files[f] = 0 \/ st.files[f] # get_file_state(f)

\* (mutant) the file is not recorded
mark_nothing(st, f) == st

\* IndexState::mark_indexed
mark_indexed(st, f) == [st EXCEPT !.files[f] = get_file_state(f)]

\* ------------------------------------------------------------------ index
\* the documents index_session builds for file f: one per message
DocsOf(f) == {[file |-> f, ver |-> fs[f].ver, of |-> fs[f].n, idx |-> k] : k \in 0 .. fs[f].n - 1}

\* the documents of f in a set of documents
Of(docs, f) == {d \in docs : d.file = f}

\* (mutant) the delete term matches no document
delete_nothing(f) == {}

\* delete_session: the files whose documents the buffered delete_term removes
delete_session(f) == {f}

\* what a commit makes of the committed documents: buffered deletes, then buffered adds
ApplyOps(docs, del, add) == {d \in docs : d.file \notin del} \cup add

Snapshot == [gen |-> idxGen, docs |-> idxDocs, bulk |-> idxBulk]

\* ------------------------------------------------------------ files_to_index
total == nBulkTodo + Len(order)

\* the file at 1-based position k of files_to_index: a followed file or "bulk"
FileAt(k) == IF k > lead /\ k <= lead + Len(order) THEN order[k - lead] ELSE "bulk"

\* bulk files among the first k of files_to_index
BulkIn(k) == IF k <= lead THEN k ELSE IF k <= lead + Len(order) THEN lead ELSE k - Len(order)

\* where the followed files may sit among nb bulk files: first, around the
\* periodic commit, last
Leads(nb) == {0, CommitEvery - 1, nb} \cap (0 .. nb)

\* ------------------------------------------------------------------ channel
Terminal(m) == m.type \in {"Done", "Error"}
rxOpen == appAlive /\ index_rx
SenderGone == pc \in {"done", "dead"}


\* observations of the current pass (history only: no action reads them)
Pass0 == [dels |-> {}, adds |-> FALSE, bulkWrites |-> FALSE, commits |-> 0,
          addFailed |-> {}, commitFailed |-> FALSE, saved |-> FALSE,
          sendFailed |-> FALSE, procAfterSendFail |-> FALSE,
          procAfterFault |-> FALSE, didSelect |-> FALSE, selected |-> {},
          selectedBulk |-> 0]

\* observations of the foreground in the current run
Seen0 == [terminal |-> "none", disconnect |-> FALSE, gen |-> 0,
          needsReload |-> FALSE, afterError |-> FALSE]

\* observations carried from one run to the next
Carry0 == [prevOk |-> FALSE, edited |-> {}, rerun |-> FALSE, fault |-> FALSE,
           interrupted |-> FALSE, afterInterrupt |-> FALSE,
           redo |-> {}, redoBulk |-> FALSE, mustRedo |-> {}, mustRedoBulk |-> FALSE,
           baseDocs |-> {}, baseBulk |-> 0]

NoStatus == [kind |-> "none", indexed |-> 0, total |-> 0]

\* no query, no parse and no ToolOutput::new is under way
SearchIdle == snapDocs = <<>> /\ limit = 0 /\ results = <<>>
ParseIdle == source = [parser |-> "none", created |-> 0] /\ lines = <<>> /\ parsed = <<>>
ToolIdle == toolIn = "none" /\ toolOut = <<>>
SelIdle == selIn = <<>> /\ selOut = <<>>
ReadIdle ==
    /\ readIn = "none" /\ readPc = "off" /\ disable_truncation = FALSE
    /\ readSession = <<>> /\ readOut = <<>>
AppIdle ==
    /\ app_index = <<>> /\ query = <<>> /\ cursor = 0 /\ app_results = <<>>
    /\ selected = 0 /\ search_scope = "Everything" /\ search_pending = FALSE
    /\ should_quit = FALSE /\ app_last = [op |-> "none", before |-> "none", at |-> 0]
CliIdle == SelIdle /\ ReadIdle /\ AppIdle

Init ==
    /\ fs \in [Files -> {[ver |-> 1, n |-> c] : c \in Contents}]
    /\ bulkN \in {0, NFill}
    /\ idxDocs = {} /\ idxBulk = 0 /\ idxGen = 0
    /\ fssDisk = EmptyState
    /\ pc = "off"
    /\ state = EmptyState
    /\ order = <<>> /\ lead = 0 /\ nBulkTodo = 0 /\ i = 0
    /\ writer = "none" /\ wDel = {} /\ wAdd = {}
    /\ chan = <<>>
    /\ appAlive = FALSE /\ index_rx = FALSE
    /\ status = NoStatus /\ total_sessions = 0 /\ indexing = FALSE
    /\ index_error = "none"
    /\ reader = [gen |-> 0, docs |-> {}, bulk |-> 0]
    /\ searchGen = -1
    /\ run = 0
    /\ sentLog = <<>>
    /\ pass = Pass0 /\ seen = Seen0 /\ carry = Carry0
    /\ SearchIdle /\ ParseIdle /\ ToolIdle /\ CliIdle

\* ------------------------------------------------------- process start and end
\* App::new: open the index (the reader's first snapshot), spawn the indexer
Launch ==
    /\ pc = "off" /\ run < MaxRuns
    /\ run' = run + 1
    /\ pc' = "open"
    /\ appAlive' = TRUE /\ index_rx' = TRUE
    /\ status' = NoStatus /\ total_sessions' = 0 /\ indexing' = TRUE
    /\ index_error' = "none"
    /\ reader' = Snapshot
    /\ searchGen' = -1
    /\ carry' = [carry EXCEPT !.rerun = carry.prevOk /\ carry.edited = {},
                              !.afterInterrupt = carry.interrupted,
                              !.mustRedo = carry.redo,
                              !.mustRedoBulk = carry.redoBulk]
    /\ UNCHANGED <<diskVars, state, listVars, i, writer, bufVars, chan, sentLog,
                   pass, seen>>
    /\ UNCHANGED <<searchVars, parseVars, toolVars, cliVars>>

PassRunning == pc \in {"writer", "loop", "progress", "commit", "reload", "final", "save"}

\* the process ends (quit, kill, power loss) wherever the indexer is
Exit ==
    /\ pc # "off"
    /\ pc' = "off"
    /\ state' = EmptyState
    /\ order' = <<>> /\ lead' = 0 /\ nBulkTodo' = 0 /\ i' = 0
    /\ writer' = "none" /\ wDel' = {} /\ wAdd' = {}
    /\ chan' = <<>> /\ sentLog' = <<>>
    /\ appAlive' = FALSE /\ index_rx' = FALSE
    /\ status' = NoStatus /\ total_sessions' = 0 /\ indexing' = FALSE
    /\ index_error' = "none"
    /\ reader' = [gen |-> 0, docs |-> {}, bulk |-> 0]
    /\ searchGen' = -1
    /\ pass' = Pass0 /\ seen' = Seen0
    /\ carry' = [carry EXCEPT
                   !.prevOk = (pc = "done" /\ sentLog # <<>>
                               /\ sentLog[Len(sentLog)].type = "Done"
                               /\ (pass.saved \/ (pass.selected = {} /\ pass.selectedBulk = 0))),
                   !.edited = {},
                   !.fault = @ \/ pass.addFailed # {} \/ pass.commitFailed,
                   !.interrupted = (PassRunning \/ (pc = "dead" /\ pass.didSelect))
                                   /\ ~pass.saved]
    /\ UNCHANGED <<diskVars, run>>
    /\ UNCHANGED <<searchVars, parseVars, toolVars, cliVars>>

\* a transcript is rewritten between two runs: new stamp, any content
\* (rewriting it twice before the next run shows the indexer nothing more)
EditFile(f, c) ==
    /\ pc = "off" /\ run >= 1 /\ run < MaxRuns
    /\ f \notin carry.edited
    /\ fs' = [fs EXCEPT ![f] = [ver |-> @.ver + 1, n |-> c]]
    /\ carry' = [carry EXCEPT !.edited = @ \cup {f}]
    /\ UNCHANGED <<bulkN, idxVars, fssDisk, pc, state, listVars, i, writer, bufVars,
                   chan, appVars, run, sentLog, pass, seen>>
    /\ UNCHANGED <<searchVars, parseVars, toolVars, cliVars>>

\* ------------------------------------------------------------------ sending
\* tx.send(m), its result ignored: the message is queued while the receiver exists
Send(m) ==
    /\ sentLog' = Append(sentLog, m)
    /\ chan' = IF rxOpen THEN Append(chan, m) ELSE chan

SendObs(p) == [p EXCEPT !.sendFailed = @ \/ ~rxOpen]

ErrorMsg(e) == [type |-> "Error", err |-> e]
DoneMsg == [type |-> "Done", total_sessions |-> Cardinality(Files) + bulkN, gen |-> idxGen]
ProgressMsg == [type |-> "Progress", indexed |-> i, total |-> total]
NeedsReloadMsg == [type |-> "NeedsReload", gen |-> idxGen]

\* locals of background_index are gone once it returns
DropLocals ==
    /\ state' = EmptyState
    /\ order' = <<>> /\ lead' = 0 /\ nBulkTodo' = 0 /\ i' = 0
    /\ writer' = "none" /\ wDel' = {} /\ wAdd' = {}

\* (mutant) send Error and carry on to the end of the pass instead of returning
AbortGoesOn(e) ==
    /\ Send(ErrorMsg(e))
    /\ pass' = SendObs(pass)
    /\ pc' = "final"
    /\ UNCHANGED <<state, listVars, i, writer, bufVars>>

\* send Error and return
Abort(e) ==
    /\ Send(ErrorMsg(e))
    /\ pass' = SendObs(pass)
    /\ pc' = "done"
    /\ DropLocals

\* ---------------------------------------------------------- background_index
\* SessionIndex::open_or_create
OpenIndex ==
    /\ pc = "open"
    /\ \/ /\ pc' = "load"
          /\ UNCHANGED <<state, listVars, i, writer, bufVars, chan, sentLog, pass>>
       \/ Abort("open")
    /\ UNCHANGED <<diskVars, appVars, run, seen, carry>>
    /\ UNCHANGED <<searchVars, parseVars, toolVars, cliVars>>

\* IndexState::load
LoadState ==
    /\ pc = "load"
    /\ \/ /\ pc' = "discover"
          /\ state' = load(fssDisk)
          /\ UNCHANGED <<listVars, i, writer, bufVars, chan, sentLog, pass>>
       \/ Abort("load")
    /\ UNCHANGED <<diskVars, appVars, run, seen, carry>>
    /\ UNCHANGED <<searchVars, parseVars, toolVars, cliVars>>

\* discover, sort by mtime, keep the files that need reindexing; nothing to do: Done
Discover ==
    /\ pc = "discover"
    /\ LET sel == {f \in Files : needs_reindex(state, f)}
           nb == bulkN - state.bulk
       IN  IF Cardinality(sel) + nb = 0
           THEN /\ Send(DoneMsg)
                /\ pass' = [SendObs(pass) EXCEPT !.didSelect = TRUE]
                /\ pc' = "done"
                /\ DropLocals
           ELSE /\ \E o \in Perms(sel), l \in Leads(nb) :
                      /\ order' = o /\ lead' = l
                /\ nBulkTodo' = nb
                /\ pass' = [pass EXCEPT !.didSelect = TRUE, !.selected = sel,
                                        !.selectedBulk = nb]
                /\ pc' = "writer"
                /\ UNCHANGED <<state, i, writer, bufVars, chan, sentLog>>
    /\ UNCHANGED <<diskVars, appVars, run, seen, carry>>
    /\ UNCHANGED <<searchVars, parseVars, toolVars, cliVars>>

\* index.writer()
CreateWriter ==
    /\ pc = "writer"
    /\ \/ /\ pc' = "loop"
          /\ writer' = "alive"
          /\ UNCHANGED <<state, listVars, i, bufVars, chan, sentLog, pass>>
       \/ Abort("writer")
    /\ UNCHANGED <<diskVars, appVars, run, seen, carry>>
    /\ UNCHANGED <<searchVars, parseVars, toolVars, cliVars>>

\* index_session: the documents buffered when add_document fails at message k
\* (k = n: every add succeeds)
index_session(f, k) == {d \in DocsOf(f) : d.idx < k}

\* where the loop goes after file number k (1-based) has been handled
AfterFile(k) ==
    IF k % ProgressEvery = 0 \/ k = total THEN "progress"
    ELSE IF k % CommitEvery = 0 THEN "commit"
    ELSE "loop"

\* (mutant) no periodic commit after a progress report
AfterProgressNoCommit(k) == IF k = total THEN "final" ELSE "loop"

AfterProgress(k) ==
    IF k % CommitEvery = 0 THEN "commit"
    ELSE IF k = total THEN "final" ELSE "loop"

AfterReload(k) == IF k = total THEN "final" ELSE "loop"

\* one iteration of the loop up to the progress report, for a followed file:
\* delete the file's documents, parse, add one document per message, record
\* the file. add_document may fail at any message; the error is dropped and
\* the file is recorded all the same.
ProcessFile ==
    /\ pc = "loop" /\ i < total
    /\ FileAt(i + 1) # "bulk"
    /\ LET f == FileAt(i + 1)
           obs == [pass EXCEPT !.procAfterSendFail = @ \/ pass.sendFailed,
                               !.procAfterFault = @ \/ pass.addFailed # {}
                                                    \/ pass.commitFailed,
                               !.dels = @ \cup {f}]
       IN  /\ wDel' = wDel \cup delete_session(f)
           /\ carry' = [carry EXCEPT !.redo = @ \cup {f}]
           /\ IF fs[f].n >= 1
              THEN /\ \E k \in 0 .. fs[f].n :
                         /\ writer = "dead" => k = 0
                         /\ wAdd' = wAdd \cup index_session(f, k)
                         /\ writer' = IF k < fs[f].n THEN "dead" ELSE writer
                         /\ pass' = [obs EXCEPT
                                       !.adds = TRUE,
                                       !.addFailed = IF k < fs[f].n
                                                     THEN @ \cup {f} ELSE @]
                   /\ state' = mark_indexed(state, f)
              ELSE /\ pass' = obs
                   /\ UNCHANGED <<state, writer, wAdd>>
    /\ i' = i + 1
    /\ pc' = AfterFile(i + 1)
    /\ UNCHANGED <<diskVars, listVars, chan, appVars, run, sentLog, seen>>
    /\ UNCHANGED <<searchVars, parseVars, toolVars, cliVars>>

\* the last of the run of bulk files that starts after file k and ends where
\* the loop next does something else: a progress report, a followed file, the end
BulkRunEnd(k) ==
    LET nextReport == (k \div ProgressEvery + 1) * ProgressEvery
        nextFollowed == IF k < lead /\ Len(order) > 0 THEN lead ELSE total
    IN  Min(Min(nextReport, nextFollowed), total)

\* the same iteration for a run of consecutive bulk files, which parse to one
\* message each: the iterations only touch the thread's own writer and state
ProcessBulk ==
    /\ pc = "loop" /\ i < total
    /\ FileAt(i + 1) = "bulk"
    /\ LET j == BulkRunEnd(i) IN
           /\ state' = [state EXCEPT !.bulk = BulkIn(j)]
           /\ carry' = [carry EXCEPT !.redoBulk = TRUE]
           /\ i' = j
           /\ pc' = AfterFile(j)
    /\ pass' = [pass EXCEPT !.procAfterSendFail = @ \/ pass.sendFailed,
                            !.procAfterFault = @ \/ pass.addFailed # {}
                                                 \/ pass.commitFailed,
                            !.bulkWrites = TRUE]
    /\ UNCHANGED <<diskVars, listVars, writer, bufVars, chan, appVars, run,
                   sentLog, seen>>
    /\ UNCHANGED <<searchVars, parseVars, toolVars, cliVars>>

SendProgress ==
    /\ pc = "progress"
    /\ Send(ProgressMsg)
    /\ pass' = SendObs(pass)
    /\ pc' = AfterProgress(i)
    /\ UNCHANGED <<diskVars, state, listVars, i, writer, bufVars, appVars, run,
                   seen, carry>>
    /\ UNCHANGED <<searchVars, parseVars, toolVars, cliVars>>

\* (mutant) every commit also writes the file-state store
CommitAndSave(next) ==
    /\ pc' = next
    /\ fssDisk' = state
    /\ \/ /\ writer = "alive"
          /\ idxDocs' = ApplyOps(idxDocs, wDel, wAdd)
          /\ idxBulk' = Max(idxBulk, BulkIn(i))
          /\ idxGen' = idxGen + 1
          /\ wDel' = {} /\ wAdd' = {}
          /\ pass' = [pass EXCEPT !.commits = @ + 1]
          /\ UNCHANGED writer
       \/ /\ writer' \in (IF writer = "alive" THEN {"alive", "dead"} ELSE {"dead"})
          /\ pass' = [pass EXCEPT !.commits = @ + 1, !.commitFailed = TRUE]
          /\ UNCHANGED <<idxVars, bufVars>>
    /\ UNCHANGED <<fs, bulkN, state, listVars, i, chan, appVars, run,
                   sentLog, seen, carry>>
    /\ UNCHANGED <<searchVars, parseVars, toolVars, cliVars>>

\* writer.commit(), its result ignored. A writer whose add_document failed has
\* lost its indexing workers and commits nothing any more; a commit of a live
\* writer publishes every buffered operation at once, or fails.
Commit(next) ==
    /\ pc' = next
    /\ \/ /\ writer = "alive"
          /\ idxDocs' = ApplyOps(idxDocs, wDel, wAdd)
          /\ idxBulk' = Max(idxBulk, BulkIn(i))
          /\ idxGen' = idxGen + 1
          /\ wDel' = {} /\ wAdd' = {}
          /\ pass' = [pass EXCEPT !.commits = @ + 1]
          /\ UNCHANGED writer
       \/ /\ writer' \in (IF writer = "alive" THEN {"alive", "dead"} ELSE {"dead"})
          /\ pass' = [pass EXCEPT !.commits = @ + 1, !.commitFailed = TRUE]
          /\ UNCHANGED <<idxVars, bufVars>>
    /\ UNCHANGED <<fs, bulkN, fssDisk, state, listVars, i, chan, appVars, run,
                   sentLog, seen, carry>>
    /\ UNCHANGED <<searchVars, parseVars, toolVars, cliVars>>

PeriodicCommit == pc = "commit" /\ Commit("reload")

SendNeedsReload ==
    /\ pc = "reload"
    /\ Send(NeedsReloadMsg)
    /\ pass' = SendObs(pass)
    /\ pc' = AfterReload(i)
    /\ UNCHANGED <<diskVars, state, listVars, i, writer, bufVars, appVars, run,
                   seen, carry>>
    /\ UNCHANGED <<searchVars, parseVars, toolVars, cliVars>>

FinalCommit == pc = "final" /\ Commit("save")

\* state.save(), its result ignored
Save ==
    /\ pc = "save"
    /\ pc' = "sendDone"
    /\ \/ /\ fssDisk' = state
          /\ pass' = [pass EXCEPT !.saved = TRUE]
          /\ carry' = [carry EXCEPT !.redo = {}, !.redoBulk = FALSE,
                                    !.baseDocs = idxDocs, !.baseBulk = idxBulk]
       \/ UNCHANGED <<fssDisk, pass, carry>>
    /\ UNCHANGED <<fs, bulkN, idxVars, state, listVars, i, writer, bufVars, chan,
                   appVars, run, sentLog, seen>>
    /\ UNCHANGED <<searchVars, parseVars, toolVars, cliVars>>

SendDone ==
    /\ pc = "sendDone"
    /\ Send(DoneMsg)
    /\ pass' = SendObs(pass)
    /\ pc' = "done"
    /\ DropLocals
    /\ UNCHANGED <<diskVars, appVars, run, seen, carry>>
    /\ UNCHANGED <<searchVars, parseVars, toolVars, cliVars>>

\* the indexer thread dies while it handles a file (a panic in a parser):
\* no terminal event, the sender and the writer are dropped
IndexerPanic ==
    /\ pc = "loop" /\ i < total
    /\ pc' = "dead"
    /\ DropLocals
    /\ UNCHANGED <<diskVars, chan, appVars, run, sentLog, pass, seen, carry>>
    /\ UNCHANGED <<searchVars, parseVars, toolVars, cliVars>>

\* ------------------------------------------------------------- the foreground
IndexingStatus(m) == [kind |-> "indexing", indexed |-> m.indexed, total |-> m.total]
ErrorStatus == [kind |-> "error", indexed |-> 0, total |-> 0]
StoppedUnexpectedly == "stopped"

\* what poll_index_updates has in hand while it works through a batch
PollStart == [status |-> status, total_sessions |-> total_sessions,
              indexing |-> indexing, index_error |-> index_error,
              should_close_rx |-> FALSE, needs_reload |-> FALSE,
              needs_search |-> FALSE, seen |-> seen]

\* (mutant) NeedsReload asks for the search but not for the reload
ApplyMsgNoReload(a, m) ==
    LET b == [a EXCEPT !.seen.afterError = @ \/ a.seen.terminal = "Error"] IN
    CASE m.type = "Progress" ->
           [b EXCEPT !.status = IndexingStatus(m), !.total_sessions = m.indexed]
      [] m.type = "NeedsReload" ->
           [b EXCEPT !.needs_search = TRUE,
                     !.seen.gen = Max(@, m.gen), !.seen.needsReload = TRUE]
      [] m.type = "Done" ->
           [b EXCEPT !.total_sessions = m.total_sessions, !.status = NoStatus,
                     !.indexing = FALSE, !.should_close_rx = TRUE,
                     !.needs_reload = TRUE, !.needs_search = TRUE,
                     !.seen.gen = Max(@, m.gen),
                     !.seen.terminal = IF @ = "none" THEN "Done" ELSE @]
      [] m.type = "Error" ->
           [b EXCEPT !.index_error = m.err, !.status = ErrorStatus,
                     !.indexing = FALSE, !.should_close_rx = TRUE,
                     !.seen.terminal = IF @ = "none" THEN "Error" ELSE @]

\* the match arm of one message
ApplyMsg(a, m) ==
    LET b == [a EXCEPT !.seen.afterError = @ \/ a.seen.terminal = "Error"] IN
    CASE m.type = "Progress" ->
           [b EXCEPT !.status = IndexingStatus(m), !.total_sessions = m.indexed]
      [] m.type = "NeedsReload" ->
           [b EXCEPT !.needs_reload = TRUE, !.needs_search = TRUE,
                     !.seen.gen = Max(@, m.gen), !.seen.needsReload = TRUE]
      [] m.type = "Done" ->
           [b EXCEPT !.total_sessions = m.total_sessions, !.status = NoStatus,
                     !.indexing = FALSE, !.should_close_rx = TRUE,
                     !.needs_reload = TRUE, !.needs_search = TRUE,
                     !.seen.gen = Max(@, m.gen),
                     !.seen.terminal = IF @ = "none" THEN "Done" ELSE @]
      [] m.type = "Error" ->
           [b EXCEPT !.index_error = m.err, !.status = ErrorStatus,
                     !.indexing = FALSE, !.should_close_rx = TRUE,
                     !.seen.terminal = IF @ = "none" THEN "Error" ELSE @]

RECURSIVE ApplyMsgs(_, _)
ApplyMsgs(a, msgs) ==
    IF msgs = <<>> THEN a ELSE ApplyMsgs(ApplyMsg(a, Head(msgs)), Tail(msgs))

\* (mutant) the check forgets to look at indexing
DetectDeathAlways(a, channel_disconnected) ==
    IF channel_disconnected
    THEN [a EXCEPT !.index_error = StoppedUnexpectedly, !.status = ErrorStatus,
                   !.indexing = FALSE, !.should_close_rx = TRUE]
    ELSE a

\* the check that follows the batch: the channel closed and indexing still set
DetectDeath(a, channel_disconnected) ==
    IF channel_disconnected /\ a.indexing
    THEN [a EXCEPT !.index_error = StoppedUnexpectedly, !.status = ErrorStatus,
                   !.indexing = FALSE, !.should_close_rx = TRUE]
    ELSE a

\* App::poll_index_updates: drain the channel (try_recv reports Disconnected
\* only once the queue is empty and the sender is gone), apply the batch,
\* detect a dead indexer, reload, search again, drop the receiver
poll_index_updates ==
    /\ appAlive /\ index_rx
    /\ LET channel_disconnected == SenderGone
           a == DetectDeath(ApplyMsgs(PollStart, chan), channel_disconnected)
           snap == IF a.needs_reload THEN Snapshot ELSE reader
       IN  /\ status' = a.status
           /\ total_sessions' = a.total_sessions
           /\ indexing' = a.indexing
           /\ index_error' = a.index_error
           /\ reader' = snap
           /\ searchGen' = IF a.needs_search THEN snap.gen ELSE searchGen
           /\ index_rx' = ~a.should_close_rx
           /\ seen' = [a.seen EXCEPT !.disconnect = @ \/ channel_disconnected]
    /\ chan' = <<>>
    /\ UNCHANGED <<diskVars, pc, state, listVars, i, writer, bufVars, appAlive,
                   run, sentLog, pass, carry>>
    /\ UNCHANGED <<searchVars, parseVars, toolVars, cliVars>>

\* the App is dropped while the process lives on: the receiver goes with it
DropApp ==
    /\ appAlive /\ pc \notin {"off"}
    /\ appAlive' = FALSE /\ index_rx' = FALSE
    /\ chan' = <<>>
    /\ status' = NoStatus /\ total_sessions' = 0 /\ indexing' = FALSE
    /\ index_error' = "none"
    /\ reader' = [gen |-> 0, docs |-> {}, bulk |-> 0]
    /\ searchGen' = -1
    /\ seen' = Seen0
    /\ UNCHANGED <<diskVars, pc, state, listVars, i, writer, bufVars, run,
                   sentLog, pass, carry>>
    /\ UNCHANGED <<searchVars, parseVars, toolVars, cliVars>>

Next ==
    \/ Launch
    \/ Exit
    \/ \E f \in Files, c \in Contents : EditFile(f, c)
    \/ OpenIndex
    \/ LoadState
    \/ Discover
    \/ CreateWriter
    \/ ProcessFile
    \/ ProcessBulk
    \/ SendProgress
    \/ PeriodicCommit
    \/ SendNeedsReload
    \/ FinalCommit
    \/ Save
    \/ SendDone
    \/ IndexerPanic
    \/ poll_index_updates
    \/ DropApp

Spec == Init /\ [][Next]_vars

\* the indexer and the foreground at rest, as before the first launch, with
\* one transcript of no messages on disk
IndexerIdle ==
    /\ fs = [f \in Files |-> [ver |-> 1, n |-> 0]]
    /\ bulkN = 0
    /\ idxDocs = {} /\ idxBulk = 0 /\ idxGen = 0
    /\ fssDisk = EmptyState
    /\ pc = "off"
    /\ state = EmptyState
    /\ order = <<>> /\ lead = 0 /\ nBulkTodo = 0 /\ i = 0
    /\ writer = "none" /\ wDel = {} /\ wAdd = {}
    /\ chan = <<>>
    /\ appAlive = FALSE /\ index_rx = FALSE
    /\ status = NoStatus /\ total_sessions = 0 /\ indexing = FALSE
    /\ index_error = "none"
    /\ reader = [gen |-> 0, docs |-> {}, bulk |-> 0]
    /\ searchGen = -1
    /\ run = 0
    /\ sentLog = <<>>
    /\ pass = Pass0 /\ seen = Seen0 /\ carry = Carry0

\* ---------------------------------------------- SessionIndex::search / recent
\* A snapshot is the sequence of its documents in address order. A document
\* carries its session id, the session timestamp, its message index and the
\* score the engine gives it for the query at hand, in two-hundredths (0: the
\* document does not match).
MaxDocs == 3        \* documents of a snapshot
MaxLimit == 2       \* the limit argument
MaxCalls == 2       \* calls made on one snapshot
Sids == {"s1", "s2"}
Stamps == {1, 2}
Scores == {0, 199, 200}
FetchFactor == 10
RecentFetchFactor == 100
Now == 2            \* the instant of the calls, on the scale of Stamps

\* message_index as index_session assigns it: the position among the
\* documents of the same session
WithIdx(b) ==
    [k \in DOMAIN b |->
        [sid |-> b[k].sid, ts |-> b[k].ts, score |-> b[k].score,
         idx |-> Cardinality({j \in 1 .. k - 1 : b[j].sid = b[k].sid})]]

Snapshots ==
    {WithIdx(b) : b \in UNION {[1 .. n -> [sid : Sids, ts : Stamps, score : Scores]] :
                                n \in 0 .. MaxDocs}}

Take(s, n) == IF Len(s) <= n THEN s ELSE SubSeq(s, 1, n)

\* the addresses in A in the collector's order: by descending key, equal keys
\* in address order
Ranked(A, key) ==
    LET Before(b, a) == key[b] > key[a] \/ (key[b] = key[a] /\ b < a)
    IN  [r \in 1 .. Cardinality(A) |->
            CHOOSE a \in A : Cardinality({b \in A : Before(b, a)}) = r - 1]

\* searcher.search(&query, &TopDocs::with_limit(n)): the matching documents by
\* descending score, equal scores in address order, the first n of them
TopDocs(docs, n) ==
    LET A == {a \in DOMAIN docs : docs[a].score > 0}
        ranked == Ranked(A, [a \in A |-> docs[a].score])
    IN  Take([r \in DOMAIN ranked |-> docs[ranked[r]]], n)

\* the same with AllQuery and order_by_fast_field("timestamp", Desc)
TopDocsByTimestamp(docs, n) ==
    LET A == DOMAIN docs
        ranked == Ranked(A, [a \in A |-> docs[a].ts])
    IN  Take([r \in DOMAIN ranked |-> docs[ranked[r]]], n)

\* recency_bonus = message_index * 0.01, in two-hundredths
RecencyBonus(idx) == 2 * idx

\* the SearchResult search builds from a hit
SearchResult(d) == [sid |-> d.sid, ts |-> d.ts, score |-> d.score,
                    matched_message_index |-> d.idx]

\* the loop over top_docs: session_results maps a session id to
\* (existing_score, result)
RECURSIVE GroupBySession(_, _)
GroupBySession(hits, acc) ==
    IF hits = <<>> THEN acc
    ELSE LET d == Head(hits)
             entry == [best |-> d.score, res |-> SearchResult(d)]
             next ==
               IF d.sid \in DOMAIN acc
               THEN IF d.score + RecencyBonus(d.idx) > acc[d.sid].best
                    THEN [acc EXCEPT ![d.sid] =
                            [best |-> d.score + RecencyBonus(d.idx),
                             res |-> SearchResult(d)]]
                    ELSE acc
               ELSE [s \in DOMAIN acc \cup {d.sid} |->
                        IF s = d.sid THEN entry ELSE acc[s]]
         IN  GroupBySession(Tail(hits), next)

\* 1 + exp(-age / half_life) with age >= 0, on two levels: 2 for a session of
\* this instant, 1 for an old one
RecencyBoost(ts) == IF Now - ts <= 0 THEN 2 ELSE 1
Final(r) == r.score * RecencyBoost(r.ts)

\* Vec::sort_by with the comparison b.key.cmp(a.key), a stable sort: by
\* descending key, elements of equal key in the order they came in
SortDescending(s, key) ==
    LET Place(k) == Cardinality({j \in DOMAIN s : key[j] > key[k]})
                    + Cardinality({j \in 1 .. k : key[j] = key[k]})
    IN  [r \in DOMAIN s |-> s[CHOOSE k \in DOMAIN s : Place(k) = r]]

\* HashMap::into_values: the values in the map's iteration order, which
\* depends on the map's random hasher state: any order
IntoValues(acc) == Perms({acc[s].res : s \in DOMAIN acc})

EmptyMap == [s \in {} |-> 0]

\* (mutant) search without the final truncate
searchUntruncated(docs, lim) ==
    LET top_docs == TopDocs(docs, lim * FetchFactor)
        session_results == GroupBySession(top_docs, EmptyMap)
    IN  {SortDescending(v, [k \in DOMAIN v |-> Final(v[k])]) : v \in IntoValues(session_results)}

\* SessionIndex::search for a query that is not blank: the sequences it can
\* return
search(docs, lim) ==
    LET top_docs == TopDocs(docs, lim * FetchFactor)
        session_results == GroupBySession(top_docs, EmptyMap)
    IN  {Take(SortDescending(v, [k \in DOMAIN v |-> Final(v[k])]), lim) : v \in IntoValues(session_results)}

\* the SearchResult recent builds from a document
RecentResult(d) == [sid |-> d.sid, ts |-> d.ts, score |-> 0,
                    matched_message_index |-> 0]

\* the loop of recent: the first document of each session, until limit
\* sessions are collected
RECURSIVE CollectRecent(_, _, _)
CollectRecent(hits, acc, lim) ==
    IF hits = <<>> THEN acc
    ELSE LET d == Head(hits) IN
         IF d.sid \in DOMAIN acc THEN CollectRecent(Tail(hits), acc, lim)
         ELSE LET next == [s \in DOMAIN acc \cup {d.sid} |->
                              IF s = d.sid THEN [res |-> RecentResult(d)] ELSE acc[s]]
              IN  IF Cardinality(DOMAIN next) >= lim THEN next
                  ELSE CollectRecent(Tail(hits), next, lim)

SessionTimestamp(r) == r.ts

\* (mutant) recent without the final sort
recentUnsorted(docs, lim) ==
    LET top_docs == TopDocsByTimestamp(docs, lim * RecentFetchFactor)
        session_results == CollectRecent(top_docs, EmptyMap, lim)
    IN  {Take(v, lim) : v \in IntoValues(session_results)}

\* SessionIndex::recent: the sequences it can return
recent(docs, lim) ==
    LET top_docs == TopDocsByTimestamp(docs, lim * RecentFetchFactor)
        session_results == CollectRecent(top_docs, EmptyMap, lim)
    IN  {Take(SortDescending(v, [k \in DOMAIN v |-> SessionTimestamp(v[k])]), lim) :
            v \in IntoValues(session_results)}

\* one call of search on the snapshot
Search ==
    /\ Len(results) < MaxCalls
    /\ \E r \in search(snapDocs, limit) :
          results' = Append(results, [op |-> "search", out |-> r])
    /\ UNCHANGED <<indexerVars, snapDocs, limit, parseVars, toolVars, cliVars>>

\* one call of recent on the snapshot
Recent ==
    /\ Len(results) < MaxCalls
    /\ \E r \in recent(snapDocs, limit) :
          results' = Append(results, [op |-> "recent", out |-> r])
    /\ UNCHANGED <<indexerVars, snapDocs, limit, parseVars, toolVars, cliVars>>

InitSearch ==
    /\ IndexerIdle /\ ParseIdle /\ ToolIdle /\ CliIdle
    /\ snapDocs \in Snapshots
    /\ limit \in 1 .. MaxLimit
    /\ results = <<>>

NextSearch == Search \/ Recent

SpecSearch == InitSearch /\ [][NextSearch]_vars

\* ------------------------------------------------------------------ parsers
\* A transcript is the sequence of its records that reach the parser's message
\* handling (blank, malformed and non-message lines are skipped before any
\* state is touched). A record carries its role, its timestamp (0: missing or
\* not RFC 3339), its text, the ids of its tool_use blocks and its tool_result
\* blocks. Instants are integers; the clock is later than every stamp written
\* in a file. One parse reads the clock as one instant.
MaxLines == 2       \* records of a transcript
MaxParses == 2      \* parse calls on the unchanged file
Roles == {"user", "assistant"}
FileStamps == 0 .. 2
Clock == {3, 4}
CommandText == "<command-message>"
Texts == {"", "a", CommandText}
Separator == "\n\n"
ToolIds == {"t1"}
Parsers == {"claude", "codex", "factory", "opencode"}

ToolResults == {[tool_use_id |-> t, is_error |-> e] : t \in ToolIds, e \in BOOLEAN}

\* the records a Claude Code transcript can hold: tool_use blocks in
\* assistant records, tool_result blocks in user records
ClaudeRecords ==
    [role : {"user"}, ts : FileStamps, text : Texts, uses : {<<>>},
     res : {<<>>} \cup {<<r>> : r \in ToolResults}]
    \cup [role : {"assistant"}, ts : FileStamps, text : Texts,
          uses : {<<>>, <<"t1">>, <<"t1", "t1">>}, res : {<<>>}]
    \cup [role : {"other"}, ts : FileStamps, text : Texts, uses : {<<>>}, res : {<<>>}]

\* the records of the other sources: text only
PlainRecords ==
    [role : Roles \cup {"other"}, ts : FileStamps, text : {"", "a"},
     uses : {<<>>}, res : {<<>>}]

SeqsUpTo(S, n) == UNION {[1 .. k -> S] : k \in 0 .. n}

\* the timestamp of a record: its own, or the clock when it has none
Timestamp(r, now) == IF r.ts = 0 THEN now ELSE r.ts

\* "if latest_timestamp.is_none() || timestamp > latest_timestamp.unwrap()"
\* (0 stands for None)
UpdateLatest(latest, timestamp) ==
    IF latest = 0 \/ timestamp > latest THEN timestamp ELSE latest

Message(role, text, timestamp, tool_calls) ==
    [role |-> role, content |-> <<text>>, timestamp |-> timestamp,
     tool_calls |-> tool_calls]

\* a tool_use block as extract_content_and_tools returns it (output: the
\* empty sequence stands for None)
ToolCall(id) == [tool_use_id |-> id, status |-> "pending", output |-> <<>>]

\* join_consecutive_messages: the fold over the messages from position k on
RECURSIVE JoinFrom(_, _, _)
JoinFrom(messages, k, acc) ==
    IF k > Len(messages) THEN acc
    ELSE LET msg == messages[k]
             n == Len(acc)
         IN  IF n > 0 /\ acc[n].role = msg.role
             THEN JoinFrom(messages, k + 1,
                      [acc EXCEPT ![n] = [@ EXCEPT
                          !.content = @ \o <<Separator>> \o msg.content,
                          !.timestamp = msg.timestamp]])
             ELSE JoinFrom(messages, k + 1, Append(acc, msg))

join_consecutive_messages(messages) == JoinFrom(messages, 1, <<>>)

\* HashMap::insert
Insert(map, key, value) ==
    [x \in DOMAIN map \cup {key} |-> IF x = key THEN value ELSE map[x]]

\* HashMap::remove (the map without the key)
Remove(map, key) == [x \in DOMAIN map \ {key} |-> map[x]]

RECURSIVE InsertAll(_, _, _)
InsertAll(map, rs, k) ==
    IF k > Len(rs) THEN map
    ELSE InsertAll(Insert(map, rs[k].tool_use_id, rs[k]), rs, k + 1)

\* the loop of ClaudeParser::parse_file over the records from position k on
RECURSIVE ClaudeLoop(_, _, _, _)
ClaudeLoop(ls, k, now, st) ==
    IF k > Len(ls) THEN st
    ELSE LET r == ls[k]
             timestamp == Timestamp(r, now)
             latest == UpdateLatest(st.latest_timestamp, timestamp)
             tool_calls == [c \in DOMAIN r.uses |-> ToolCall(r.uses[c])]
             tool_results == IF r.role = "user"
                             THEN InsertAll(st.tool_results, r.res, 1)
                             ELSE st.tool_results
             noted == [st EXCEPT !.latest_timestamp = latest]
         IN  IF r.role \notin Roles
             THEN ClaudeLoop(ls, k + 1, now, noted)
             ELSE IF (r.text = "" /\ tool_calls = <<>>) \/ r.text = CommandText
             THEN ClaudeLoop(ls, k + 1, now,
                             [noted EXCEPT !.tool_results = tool_results])
             ELSE ClaudeLoop(ls, k + 1, now,
                      [noted EXCEPT
                          !.tool_results = tool_results,
                          !.messages = Append(@, Message(r.role, r.text,
                                                         timestamp, tool_calls))])

\* "Match tool results to tool calls": the calls of one message from k on
RECURSIVE MatchCalls(_, _, _)
MatchCalls(calls, k, tool_results) ==
    IF k > Len(calls) THEN [calls |-> calls, tool_results |-> tool_results]
    ELSE LET id == calls[k].tool_use_id IN
         IF id \in DOMAIN tool_results
         THEN LET result == tool_results[id] IN
              MatchCalls([calls EXCEPT ![k] = [@ EXCEPT
                             !.status = IF result.is_error THEN "error" ELSE "success",
                             !.output = <<[is_error |-> result.is_error]>>]],
                         k + 1, Remove(tool_results, id))
         ELSE MatchCalls(calls, k + 1, tool_results)

RECURSIVE MatchMessages(_, _, _)
MatchMessages(messages, k, tool_results) ==
    IF k > Len(messages) THEN messages
    ELSE LET m == MatchCalls(messages[k].tool_calls, 1, tool_results) IN
         MatchMessages([messages EXCEPT ![k].tool_calls = m.calls], k + 1,
                       m.tool_results)

Session(latest_timestamp, fallback, messages) ==
    [timestamp |-> IF latest_timestamp = 0 THEN fallback ELSE latest_timestamp,
     messages |-> messages]

Loop0 == [latest_timestamp |-> 0, messages |-> <<>>, tool_results |-> EmptyMap]

ClaudeParser_parse_file(ls, now) ==
    LET st == ClaudeLoop(ls, 1, now, Loop0)
        matched == MatchMessages(st.messages, 1, st.tool_results)
    IN  Session(st.latest_timestamp, now, join_consecutive_messages(matched))

\* the loop of CodexParser::parse_file: the latest timestamp follows the
\* messages pushed
RECURSIVE CodexLoop(_, _, _, _)
CodexLoop(ls, k, now, st) ==
    IF k > Len(ls) THEN st
    ELSE LET r == ls[k]
             timestamp == Timestamp(r, now)
         IN  IF r.role \in Roles /\ r.text # ""
             THEN CodexLoop(ls, k + 1, now,
                      [st EXCEPT
                          !.messages = Append(@, Message(r.role, r.text, timestamp, <<>>)),
                          !.latest_timestamp = UpdateLatest(@, timestamp)])
             ELSE CodexLoop(ls, k + 1, now, st)

\* CodexParser::parse_file returns the messages as pushed
CodexParser_parse_file(ls, now) ==
    LET st == CodexLoop(ls, 1, now, Loop0)
    IN  Session(st.latest_timestamp, now, st.messages)

\* the loop of FactoryParser::parse_file and of OpenCodeParser::parse_file
\* over the message records: the latest timestamp follows every record
RECURSIVE PlainLoop(_, _, _, _)
PlainLoop(ls, k, now, st) ==
    IF k > Len(ls) THEN st
    ELSE LET r == ls[k]
             timestamp == Timestamp(r, now)
             noted == [st EXCEPT !.latest_timestamp = UpdateLatest(@, timestamp)]
         IN  IF r.role \in Roles /\ r.text # ""
             THEN PlainLoop(ls, k + 1, now,
                      [noted EXCEPT !.messages =
                          Append(@, Message(r.role, r.text, timestamp, <<>>))])
             ELSE PlainLoop(ls, k + 1, now, noted)

FactoryParser_parse_file(ls, now) ==
    LET st == PlainLoop(ls, 1, now, Loop0)
    IN  Session(st.latest_timestamp, now, join_consecutive_messages(st.messages))

\* time.created of a message file, 0 when it has none
Created(r) == r.ts

\* "Sort by creation time": a stable sort, ascending
SortByCreated(ls) ==
    LET Place(k) == Cardinality({j \in DOMAIN ls : Created(ls[j]) < Created(ls[k])})
                    + Cardinality({j \in DOMAIN ls : Created(ls[j]) = Created(ls[k]) /\ j <= k})
    IN  [p \in DOMAIN ls |-> ls[CHOOSE k \in DOMAIN ls : Place(k) = p]]

\* OpenCodeParser::parse_file: created is time.created of the session file,
\* 0 when it has none
OpenCodeParser_parse_file(ls, created, now) ==
    LET st == PlainLoop(SortByCreated(ls), 1, now, Loop0)
    IN  Session(st.latest_timestamp, IF created = 0 THEN now ELSE created,
                join_consecutive_messages(st.messages))

\* parser::parse_session_file at instant now
parse_session_file(now) ==
    CASE source.parser = "claude" -> ClaudeParser_parse_file(lines, now)
      [] source.parser = "codex" -> CodexParser_parse_file(lines, now)
      [] source.parser = "factory" -> FactoryParser_parse_file(lines, now)
      [] source.parser = "opencode" -> OpenCodeParser_parse_file(lines, source.created, now)

\* one more parse of the unchanged file, at the same instant or later
Parse ==
    /\ Len(parsed) < MaxParses
    /\ \E now \in Clock :
          /\ parsed # <<>> => now >= parsed[Len(parsed)].at
          /\ parsed' = Append(parsed, [at |-> now, session |-> parse_session_file(now)])
    /\ UNCHANGED <<indexerVars, searchVars, source, lines, toolVars, cliVars>>

ParseClaude == source.parser = "claude" /\ Parse
ParseCodex == source.parser = "codex" /\ Parse
ParseFactory == source.parser = "factory" /\ Parse
ParseOpenCode == source.parser = "opencode" /\ Parse

InitParse ==
    /\ IndexerIdle /\ SearchIdle /\ ToolIdle /\ CliIdle
    /\ source \in [parser : Parsers \ {"opencode"}, created : {0}]
                  \cup [parser : {"opencode"}, created : {0, 1}]
    /\ lines \in SeqsUpTo(IF source.parser = "claude" THEN ClaudeRecords
                          ELSE PlainRecords, MaxLines)
    /\ parsed = <<>>

NextParse == ParseClaude \/ ParseCodex \/ ParseFactory \/ ParseOpenCode

SpecParse == InitParse /\ [][NextParse]_vars

\* -------------------------------------------------------------- ToolOutput
\* A content string is a run of one-byte characters followed by a run of
\* characters of one width (1 to 4 bytes, as UTF-8 has them). A String that
\* results from slicing is written as the pieces it is made of: byte ranges
\* [from, to) of the original and the truncation marker.
MAX_BYTES == 2000
KEEP_BYTES == 1000
MaxChars == 3000    \* characters of the longest second run
Widths == 1 .. 4
LeadChars == {0} \cup (KEEP_BYTES - 4 .. KEEP_BYTES)
Counts == (0 .. 2) \cup (248 .. 255) \cup (331 .. 336) \cup (498 .. 503)
          \cup (995 .. 1005) \cup {2 * KEEP_BYTES, 2 * KEEP_BYTES + 1, MaxChars}

Contents_ == [lead : LeadChars, width : Widths, count : Counts]

\* content.len()
len(c) == c.lead + c.width * c.count

\* content.char_indices(): the byte offset of every character
char_indices(c) == (0 .. c.lead - 1) \cup {c.lead + c.width * j : j \in 0 .. c.count - 1}

\* c.len_utf8() of the character at byte offset k
len_utf8(c, k) == IF k < c.lead THEN 1 ELSE c.width

MinOf(S) == CHOOSE x \in S : \A y \in S : x <= y

Slice(from, to) == [kind |-> "bytes", from |-> from, to |-> to, dropped |-> 0]
Marker(dropped) == [kind |-> "marker", from |-> 0, to |-> 0, dropped |-> dropped]

\* the String handed in, untouched
Whole(c) == <<Slice(0, len(c))>>

\* (mutant) results flagged as errors are truncated like the others
ToolOutput_new_errors_too(c, is_error, DISABLE_TRUNCATION) ==
    LET total_bytes == len(c)
        head == {k \in char_indices(c) : k < KEEP_BYTES}
        tail == {k \in char_indices(c) : total_bytes - k < KEEP_BYTES}
        start_end == IF head = {} THEN Min(KEEP_BYTES, total_bytes)
                     ELSE MaxOf(head) + len_utf8(c, MaxOf(head))
        last_start == IF tail = {} THEN Max(total_bytes - KEEP_BYTES, 0)
                      ELSE MinOf(tail)
    IN  IF DISABLE_TRUNCATION
        THEN [content |-> Whole(c), truncated |-> FALSE, total_bytes |-> total_bytes]
        ELSE IF total_bytes <= MAX_BYTES
        THEN [content |-> Whole(c), truncated |-> FALSE, total_bytes |-> total_bytes]
        ELSE [content |-> <<Slice(0, start_end), Marker(total_bytes - MAX_BYTES),
                            Slice(last_start, total_bytes)>>,
              truncated |-> TRUE, total_bytes |-> total_bytes]

\* ToolOutput::new
ToolOutput_new(c, is_error, DISABLE_TRUNCATION) ==
    LET total_bytes == len(c)
        head == {k \in char_indices(c) : k < KEEP_BYTES}
        tail == {k \in char_indices(c) : total_bytes - k < KEEP_BYTES}
        start_end == IF head = {} THEN Min(KEEP_BYTES, total_bytes)
                     ELSE MaxOf(head) + len_utf8(c, MaxOf(head))
        last_start == IF tail = {} THEN Max(total_bytes - KEEP_BYTES, 0)
                      ELSE MinOf(tail)
    IN  IF DISABLE_TRUNCATION
        THEN [content |-> Whole(c), truncated |-> FALSE, total_bytes |-> total_bytes]
        ELSE IF is_error \/ total_bytes <= MAX_BYTES
        THEN [content |-> Whole(c), truncated |-> FALSE, total_bytes |-> total_bytes]
        ELSE [content |-> <<Slice(0, start_end), Marker(total_bytes - MAX_BYTES),
                            Slice(last_start, total_bytes)>>,
              truncated |-> TRUE, total_bytes |-> total_bytes]

\* ToolOutput::new_untruncated
new_untruncated(c) ==
    [content |-> Whole(c), truncated |-> FALSE, total_bytes |-> len(c)]

\* the parser builds the output of a matched tool call
New ==
    /\ toolOut = <<>>
    /\ toolOut' = <<[op |-> "new",
                     out |-> ToolOutput_new(toolIn.content, toolIn.is_error,
                                            toolIn.DISABLE_TRUNCATION)]>>
    /\ UNCHANGED <<indexerVars, searchVars, parseVars, toolIn, cliVars>>

NewUntruncated ==
    /\ toolOut = <<>>
    /\ toolOut' = <<[op |-> "new_untruncated", out |-> new_untruncated(toolIn.content)]>>
    /\ UNCHANGED <<indexerVars, searchVars, parseVars, toolIn, cliVars>>

InitToolOutput ==
    /\ IndexerIdle /\ SearchIdle /\ ParseIdle /\ CliIdle
    /\ toolIn \in [content : Contents_, is_error : BOOLEAN, DISABLE_TRUNCATION : BOOLEAN]
    /\ toolOut = <<>>

NextToolOutput == New \/ NewUntruncated

SpecToolOutput == InitToolOutput /\ [][NextToolOutput]_vars

\* ------------------------------------------- a state file of another version
\* The process starts on a state file that some version of the program wrote
\* after indexing what it records: any schema version, entries for the
\* followed file and the bulk files or none.
Versions == {0, CURRENT_VERSION, CURRENT_VERSION + 1}

InitVersion ==
    /\ fs \in [Files -> {[ver |-> 1, n |-> c] : c \in 1 .. MaxMsgs}]
    /\ bulkN \in {0, NFill}
    /\ fssDisk \in [files : [Files -> {0, 1}], bulk : {0, bulkN}, version : Versions]
    /\ idxDocs = UNION {IF fssDisk.files[f] = 0 THEN {} ELSE DocsOf(f) : f \in Files}
    /\ idxBulk = fssDisk.bulk
    /\ idxGen = 0
    /\ pc = "off"
    /\ state = EmptyState
    /\ order = <<>> /\ lead = 0 /\ nBulkTodo = 0 /\ i = 0
    /\ writer = "none" /\ wDel = {} /\ wAdd = {}
    /\ chan = <<>>
    /\ appAlive = FALSE /\ index_rx = FALSE
    /\ status = NoStatus /\ total_sessions = 0 /\ indexing = FALSE
    /\ index_error = "none"
    /\ reader = [gen |-> 0, docs |-> {}, bulk |-> 0]
    /\ searchGen = -1
    /\ run = 0
    /\ sentLog = <<>>
    /\ pass = Pass0 /\ seen = Seen0 /\ carry = Carry0
    /\ SearchIdle /\ ParseIdle /\ ToolIdle /\ CliIdle

\* the start of a pass, up to the choice of files_to_index
NextVersion == Launch \/ Exit \/ OpenIndex \/ LoadState \/ Discover

SpecVersion == InitVersion /\ [][NextVersion]_vars

\* ----------------------------------------------------------------------
\* parse_selector (src/selector.rs).  A string is a sequence of
\* one-character strings; usize is scaled down to 0 .. USIZE_MAX, and a
\* numeral above it overflows exactly as one above 2^64 - 1 does.

MaxSelLen == 5
USIZE_MAX == 7
Digits == {"0", "1", "2", "7"}
Alphabet == {"a", ":", ".", "-", "+", " ", "0", "2"}
Keyword == <<"e", "r", "r", "o", "r", "s">>
DigitValue == [c \in Digits |-> CASE c = "0" -> 0 [] c = "1" -> 1 [] c = "2" -> 2 [] c = "7" -> 7]

Selectors ==
    SeqsUpTo(Alphabet, MaxSelLen)
        \cup {pre \o Keyword \o post : pre \in SeqsUpTo({"a", ":", " "}, 2),
                                       post \in SeqsUpTo({"s", " ", "2"}, 1)}

\* str::trim: leading and trailing white space removed.
trim(s) ==
    LET Solid == {p \in DOMAIN s : s[p] # " "}
    IN  IF Solid = {} THEN <<>> ELSE SubSeq(s, MinOf(Solid), MaxOf(Solid))

\* str::find: the first position of a character, <<>> when absent.
find(s, c) ==
    LET At == {p \in DOMAIN s : s[p] = c}
    IN  IF At = {} THEN <<>> ELSE <<MinOf(At)>>

\* The value of a digit string, most significant digit first.
RECURSIVE Decimal(_)
Decimal(s) ==
    IF s = <<>> THEN 0
    ELSE 10 * Decimal(SubSeq(s, 1, Len(s) - 1)) + DigitValue[s[Len(s)]]

\* str::parse::<usize>: an optional leading '+', then one or more digits
\* whose value fits a usize; <<>> is Err, <<n>> is Ok(n).
parse_usize(s) ==
    LET digits == IF s # <<>> /\ s[1] = "+" THEN Tail(s) ELSE s
    IN  IF digits = <<>> \/ \E p \in DOMAIN digits : digits[p] \notin Digits
        THEN <<>>
        ELSE IF Decimal(digits) > USIZE_MAX THEN <<>>
        ELSE <<Decimal(digits)>>

NoMessage == [kind |-> "None", a |-> 0, b |-> 0]
Err(e) == [kind |-> "Err", session_id |-> <<>>, message |-> [kind |-> e, a |-> 0, b |-> 0]]
SelSession(id) == [kind |-> "Session", session_id |-> id, message |-> NoMessage]
SelMessage(id, k, x, y) ==
    [kind |-> "Message", session_id |-> id, message |-> [kind |-> k, a |-> x, b |-> y]]
SelTool(id, m, t) ==
    [kind |-> "Tool", session_id |-> id, message |-> [kind |-> "Tool", a |-> m, b |-> t]]

parse_target(session_id_, rest) ==
    LET dot  == find(rest, ".")
        dash == find(rest, "-")
    IN  IF rest = Keyword THEN SelMessage(session_id_, "Errors", 0, 0)
        ELSE IF dot # <<>> THEN
            LET message_idx == parse_usize(SubSeq(rest, 1, dot[1] - 1))
                tool_idx    == parse_usize(SubSeq(rest, dot[1] + 1, Len(rest)))
            IN  IF message_idx = <<>> THEN Err("InvalidMessageIndex")
                ELSE IF tool_idx = <<>> THEN Err("InvalidToolIndex")
                ELSE SelTool(session_id_, message_idx[1], tool_idx[1])
        ELSE IF dash # <<>> THEN
            IF dash[1] = 1 THEN
                LET count == parse_usize(Tail(rest))
                IN  IF count = <<>> THEN Err("InvalidLastCount")
                    ELSE SelMessage(session_id_, "Last", count[1], 0)
            ELSE
                LET start == parse_usize(SubSeq(rest, 1, dash[1] - 1))
                    end   == parse_usize(SubSeq(rest, dash[1] + 1, Len(rest)))
                IN  IF start = <<>> \/ end = <<>> THEN Err("InvalidRange")
                    ELSE SelMessage(session_id_, "Range", start[1], end[1])
        ELSE
            LET message_idx == parse_usize(rest)
            IN  IF message_idx = <<>> THEN Err("InvalidMessageIndex")
                ELSE SelMessage(session_id_, "Single", message_idx[1], 0)

parse_selector(raw) ==
    LET input     == trim(raw)
        colon_pos == find(input, ":")
    IN  IF input = <<>> THEN Err("EmptyInput")
        ELSE IF colon_pos # <<>>
        THEN parse_target(SubSeq(input, 1, colon_pos[1] - 1),
                          SubSeq(input, colon_pos[1] + 1, Len(input)))
        ELSE SelSession(input)

\* Selector::session_id
Selector_session_id(sel) == sel.session_id

ParseSelector ==
    /\ selOut = <<>>
    /\ selOut' = <<parse_selector(selIn)>>
    /\ UNCHANGED <<indexerVars, searchVars, parseVars, toolVars, selIn, readVars, uiVars>>

InitSelector ==
    /\ selIn \in Selectors
    /\ selOut = <<>>
    /\ IndexerIdle /\ SearchIdle /\ ParseIdle /\ ToolIdle /\ ReadIdle /\ AppIdle

NextSelector == ParseSelector

SpecSelector == InitSelector /\ [][NextSelector]_vars

\* ----------------------------------------------------------------------
\* run_read (src/cli.rs).  The session file is a sequence of messages, each
\* plain or carrying one tool call whose output is long enough to be
\* truncated; the index either knows the session or not, and the file is
\* either readable or not.

MaxT == 2
ReadNumbers == {0, 1, 2, USIZE_MAX}
ToolNumbers == {0, 1, 2}
Contexts == {<<>>, <<1>>, <<USIZE_MAX>>}
MessageKinds == {"plain", "tool", "tool_error"}
LongContent == [lead |-> 0, width |-> 4, count |-> MAX_BYTES \div 4 + 1]
Files_ ==
    {[state |-> st, messages |-> <<>>] : st \in {"missing", "unreadable"}}
        \cup {[state |-> "readable", messages |-> ms] : ms \in SeqsUpTo(MessageKinds, MaxT)}

\* the decimal numeral of a number below ten
Numeral(n) == <<CHOOSE c \in Digits : DigitValue[c] = n>>

SelectorStrings ==
    LET id == <<"a">>
        target == {Keyword, <<"x">>}
            \cup {Numeral(n) : n \in ReadNumbers}
            \cup {<<"-">> \o Numeral(n) : n \in ReadNumbers}
            \cup {Numeral(n) \o <<"-">> \o Numeral(m) : n \in ReadNumbers, m \in ToolNumbers}
            \cup {Numeral(n) \o <<".">> \o Numeral(k) : n \in ReadNumbers, k \in ToolNumbers}
    IN  {id} \cup {id \o <<":">> \o t : t \in target}

ReadArgs ==
    [selector_str : SelectorStrings, after : Contexts, before : Contexts,
     context : Contexts, full : BOOLEAN, file : Files_]

\* Option::or
or(x, y) == IF x # <<>> THEN x ELSE y

\* Option::unwrap_or
unwrap_or(x, d) == IF x # <<>> THEN x[1] ELSE d

\* usize::saturating_sub
saturating_sub(x, y) == IF x > y THEN x - y ELSE 0

\* x + y on usize: the sum when it fits; past usize::MAX the build decides,
\* a panic with overflow checks (<<>>) and the wrapped sum without.
add(x, y, overflow_checks) ==
    IF x + y <= USIZE_MAX THEN <<x + y>>
    ELSE IF overflow_checks THEN <<>>
    ELSE <<(x + y) % (USIZE_MAX + 1)>>

\* the messages of a parsed session file; every tool output goes through
\* ToolOutput::new, which reads the flag
Messages(file, flag) ==
    [k \in DOMAIN file.messages |->
        IF file.messages[k] = "plain"
        THEN [tool_calls |-> <<>>]
        ELSE [tool_calls |->
                 <<[is_error |-> file.messages[k] = "tool_error",
                    output |-> ToolOutput_new(LongContent, file.messages[k] = "tool_error",
                                              flag)]>>]]

Printed(start, end) == [k \in 1 .. (IF end > start THEN end - start ELSE 0) |-> start + k]
ReadOk(msgs) == [status |-> "ok", messages |-> msgs]
ReadErr(e) == [status |-> e, messages |-> <<>>]

\* (start..end).map(|i| (i + 1, ...)) with
\* start = lo.saturating_sub(1 + before_ctx), end = (hi + after_ctx).min(total_)
Window(lo, hi, before_ctx, after_ctx, total_, overflow_checks) ==
    LET back  == add(1, before_ctx, overflow_checks)
        ahead == add(hi, after_ctx, overflow_checks)
    IN  IF back = <<>> \/ ahead = <<>> THEN ReadErr("panic")
        ELSE ReadOk(Printed(saturating_sub(lo, back[1]), Min(ahead[1], total_)))

\* MessageSelector::Errors: the windows around the messages with a failed call
ErrorWindows(messages, before_ctx, after_ctx, overflow_checks) ==
    LET total_ == Len(messages)
        error_indices == {k \in 0 .. total_ - 1 :
                             \E t \in DOMAIN messages[k + 1].tool_calls :
                                 messages[k + 1].tool_calls[t].is_error}
        ends == [k \in error_indices |-> add(k + 1, after_ctx, overflow_checks)]
        indices == UNION {saturating_sub(k, before_ctx) .. Min(ends[k][1], total_) - 1 :
                             k \in error_indices}
        rank(x) == Cardinality({y \in indices : y <= x})
    IN  IF \E k \in error_indices : ends[k] = <<>> THEN ReadErr("panic")
        ELSE ReadOk([j \in 1 .. Cardinality(indices) |->
                        1 + CHOOSE x \in indices : rank(x) = j])

\* the selector applied to the parsed session
select(selector, messages, before_ctx, after_ctx, overflow_checks) ==
    LET total_ == Len(messages)
        m == selector.message
    IN  CASE selector.kind = "Session" -> ReadOk(Printed(0, total_))
          [] selector.kind = "Message" /\ m.kind = "Errors" ->
                ErrorWindows(messages, before_ctx, after_ctx, overflow_checks)
          [] selector.kind = "Message" /\ m.kind = "Single" ->
                IF m.a = 0 \/ m.a > total_ THEN ReadErr("error")
                ELSE Window(m.a, m.a, before_ctx, after_ctx, total_, overflow_checks)
          [] selector.kind = "Message" /\ m.kind = "Range" ->
                IF m.a = 0 \/ m.b = 0 \/ m.a > total_ \/ m.b > total_ \/ m.a > m.b
                THEN ReadErr("error")
                ELSE Window(m.a, m.b, before_ctx, after_ctx, total_, overflow_checks)
          [] selector.kind = "Message" /\ m.kind = "Last" ->
                LET back == add(m.a, before_ctx, overflow_checks)
                IN  IF back = <<>> THEN ReadErr("panic")
                    ELSE ReadOk(Printed(saturating_sub(total_, back[1]), total_))
          [] selector.kind = "Tool" ->
                IF m.a = 0 \/ m.a > total_ THEN ReadErr("error")
                ELSE IF m.b = 0 \/ m.b > Len(messages[m.a].tool_calls) THEN ReadErr("error")
                ELSE Window(m.a, m.a, before_ctx, after_ctx, total_, overflow_checks)

\* run_read up to the lookup: the selector is parsed, the session looked up,
\* and the flag set for --full
ReadLookup ==
    /\ readPc = "lookup"
    /\ LET selector == parse_selector(readIn.selector_str) IN
       IF selector.kind = "Err" \/ readIn.file.state = "missing"
       THEN /\ readPc' = "failed"
            /\ readOut' = <<ReadErr("error")>>
            /\ UNCHANGED disable_truncation
       ELSE /\ readPc' = "parse"
            /\ disable_truncation' = IF readIn.full THEN TRUE ELSE disable_truncation
            /\ UNCHANGED readOut
    /\ UNCHANGED <<indexerVars, searchVars, parseVars, toolVars, selVars, uiVars, readIn,
                   readSession>>

\* parser::parse_session_file(&file_path)?
ReadParse ==
    /\ readPc = "parse"
    /\ IF readIn.file.state = "unreadable"
       THEN /\ readPc' = "failed"
            /\ readOut' = <<ReadErr("error")>>
            /\ UNCHANGED readSession
       ELSE /\ readPc' = "reset"
            /\ readSession' = <<Messages(readIn.file, disable_truncation)>>
            /\ UNCHANGED readOut
    /\ UNCHANGED <<indexerVars, searchVars, parseVars, toolVars, selVars, uiVars, readIn,
                   disable_truncation>>

\* the flag reset after parsing
ReadReset ==
    /\ readPc = "reset"
    /\ disable_truncation' = IF readIn.full THEN FALSE ELSE disable_truncation
    /\ readPc' = "select"
    /\ UNCHANGED <<indexerVars, searchVars, parseVars, toolVars, selVars, uiVars, readIn,
                   readSession, readOut>>

\* the context bounds, the selection and the output
ReadSelect ==
    /\ readPc = "select"
    /\ \E overflow_checks \in BOOLEAN :
          LET before_ctx == unwrap_or(or(readIn.before, readIn.context), 0)
              after_ctx  == unwrap_or(or(readIn.after, readIn.context), 0)
              out == select(parse_selector(readIn.selector_str), readSession[1],
                            before_ctx, after_ctx, overflow_checks)
          IN  /\ readOut' = <<out>>
              /\ readPc' = IF out.status = "ok" THEN "done" ELSE "failed"
    /\ UNCHANGED <<indexerVars, searchVars, parseVars, toolVars, selVars, uiVars, readIn,
                   disable_truncation, readSession>>

InitRead ==
    /\ readIn \in ReadArgs
    /\ readPc = "lookup"
    /\ disable_truncation = FALSE
    /\ readSession = <<>>
    /\ readOut = <<>>
    /\ IndexerIdle /\ SearchIdle /\ ParseIdle /\ ToolIdle /\ SelIdle /\ AppIdle

NextRead ==
    \/ ReadLookup
    \/ ReadParse
    \/ ReadReset
    \/ ReadSelect

SpecRead == InitRead /\ [][NextRead]_vars

\* ----------------------------------------------------------------------
\* A session file indexed, listed by recent and opened again.  The stamps
\* of the transcript model are instants in ticks, TicksPerSecond to the
\* second; the index stores whole seconds.

TicksPerSecond == 2
OtherSeconds == 0 .. 2

\* SessionIndex::get_by_id: term query on session_id, the first hit's
\* file_path, none if no document is found
get_by_id(docs, id) ==
    LET hits == {a \in DOMAIN docs : docs[a].sid = id}
    IN  IF hits = {} THEN "none"
        ELSE docs[CHOOSE a \in hits : \A b \in hits : a <= b].file_path

\* DateTime::timestamp: the whole seconds of an instant
timestamp(t) == t \div TicksPerSecond

\* DateTime::from_timestamp(secs, 0)
from_timestamp(secs) == secs * TicksPerSecond

\* SessionIndex::index_session, the documents it adds: one per message, all
\* with the session's timestamp in seconds
Documents(session, id, file_path) ==
    LET timestamp_secs == timestamp(session.timestamp)
    IN  [k \in DOMAIN session.messages |->
            [sid |-> id, file_path |-> file_path, ts |-> timestamp_secs,
             idx |-> k - 1, score |-> 0]]

\* the indexer parses the file and adds its documents; the reader reloads
IndexFile ==
    /\ parsed = <<>>
    /\ \E now \in Clock :
          LET session == parse_session_file(now) IN
          /\ parsed' = <<[at |-> now, session |-> session]>>
          /\ snapDocs' = snapDocs \o Documents(session, "s1", "f1")
    /\ UNCHANGED <<indexerVars, limit, results, source, lines, toolVars, cliVars>>

\* the session list: recent on the reloaded index
ListRecent ==
    /\ Len(parsed) = 1
    /\ results = <<>>
    /\ \E r \in recent(snapDocs, limit) :
          results' = <<[op |-> "recent", out |-> r]>>
    /\ UNCHANGED <<indexerVars, snapDocs, limit, parseVars, toolVars, cliVars>>

\* a listed session is picked: get_by_id, then the file is parsed again
Reopen ==
    /\ Len(parsed) = 1
    /\ results # <<>>
    /\ \E j \in DOMAIN results[1].out :
          /\ results[1].out[j].sid = "s1"
          /\ get_by_id(snapDocs, results[1].out[j].sid) = "f1"
    /\ \E now \in Clock :
          /\ now >= parsed[1].at
          /\ parsed' = Append(parsed, [at |-> now, session |-> parse_session_file(now)])
    /\ UNCHANGED <<indexerVars, searchVars, source, lines, toolVars, cliVars>>

InitRoundTrip ==
    /\ IndexerIdle /\ ToolIdle /\ CliIdle
    /\ source \in [parser : Parsers \ {"opencode"}, created : {0}]
                  \cup [parser : {"opencode"}, created : {0, 1}]
    /\ lines \in SeqsUpTo(IF source.parser = "claude" THEN ClaudeRecords
                          ELSE PlainRecords, MaxLines)
    /\ parsed = <<>>
    /\ snapDocs \in {<<>>} \cup {<<[sid |-> "s2", file_path |-> "f2", ts |-> s,
                                   idx |-> 0, score |-> 0]>> : s \in OtherSeconds}
    /\ limit \in 1 .. MaxLimit
    /\ results = <<>>

NextRoundTrip ==
    \/ IndexFile
    \/ ListRecent
    \/ Reopen

SpecRoundTrip == InitRoundTrip /\ [][NextRoundTrip]_vars

\* ----------------------------------------------------------------------
\* The App's result list (src/app.rs): query edits, the debounced search,
\* scope toggle, navigation and the reload after an indexer message.  The
\* reader holds at most one document per session; a document's score is its
\* match with any query that is not empty.

MaxQueryLen == 1
ResultLimit == 50
AppSids == <<"s1", "s2">>
launch_cwd == "here"
Cwd == [s \in Sids |-> IF s = "s2" THEN "there" ELSE "here"]

AppIndexes ==
    LET Shapes == {[present |-> FALSE, ts |-> 1, score |-> 0]}
                      \cup [present : {TRUE}, ts : Stamps, score : {0, 200}]
        Docs(c) ==
            LET Present(s) == c[s].present
                sids == SelectSeq(AppSids, Present)
            IN  [k \in DOMAIN sids |->
                    [sid |-> sids[k], ts |-> c[sids[k]].ts, score |-> c[sids[k]].score,
                     idx |-> 0]]
    IN  {Docs(c) : c \in [Sids -> Shapes]}

\* results.retain(|r| r.session.cwd == *cwd)
retain(rs, cwd) ==
    LET Keep(r) == Cwd[r.sid] = cwd
    IN  SelectSeq(rs, Keep)

\* self.results.get(self.selected).map(|r| r.session.id.clone()), "none" for None
selected_session_id(rs, sel) == IF sel < Len(rs) THEN rs[sel + 1].sid ELSE "none"

\* (mutant) the selection goes to the last result, whatever was selected
reselect_last(id, rs) == IF rs = <<>> THEN 0 ELSE Len(rs) - 1

\* "Try to preserve selection on the same session": the position of the
\* first result with the id, else 0
reselect(id, rs) ==
    LET at == {k \in DOMAIN rs : rs[k].sid = id}
    IN  IF id # "none" /\ at # {} THEN MinOf(at) - 1 ELSE 0

\* App::search: the (results, selected) it can leave; a failed query returns
\* early and leaves both as they were
App_search(index, q, scope, rs, sel) ==
    LET found == IF q = <<>> THEN recent(index, ResultLimit) ELSE search(index, ResultLimit)
        shown == {IF scope = "Folder" THEN retain(r, launch_cwd) ELSE r : r \in found}
    IN  {[results |-> rs, selected |-> sel]}
            \cup {[results |-> r, selected |-> reselect(selected_session_id(rs, sel), r)] :
                     r \in shown}

\* what a handler that re-issues the query leaves in app_last: the session
\* selected when it began, and where
Did(op) == [op |-> op, before |-> selected_session_id(app_results, selected), at |-> selected]

\* what a handler that moves the selection leaves there
Moved(op) == [op |-> op, before |-> "none", at |-> selected]

\* what a handler of the query line leaves there
Key == [op |-> "key", before |-> "none", at |-> 0]

Frame == UNCHANGED <<indexerVars, searchVars, parseVars, toolVars, selVars, readVars>>

mark_search_pending == search_pending' = TRUE

on_char ==
    /\ ~should_quit
    /\ Len(query) < MaxQueryLen
    /\ query' = SubSeq(query, 1, cursor) \o <<"q">> \o SubSeq(query, cursor + 1, Len(query))
    /\ cursor' = cursor + 1
    /\ mark_search_pending
    /\ app_last' = Key
    /\ UNCHANGED <<app_index, app_results, selected, search_scope, should_quit>>
    /\ Frame

on_backspace ==
    /\ ~should_quit
    /\ cursor > 0
    /\ cursor' = cursor - 1
    /\ query' = SubSeq(query, 1, cursor - 1) \o SubSeq(query, cursor + 1, Len(query))
    /\ mark_search_pending
    /\ app_last' = Key
    /\ UNCHANGED <<app_index, app_results, selected, search_scope, should_quit>>
    /\ Frame

on_escape ==
    /\ ~should_quit
    /\ IF query = <<>>
       THEN /\ should_quit' = TRUE
            /\ UNCHANGED <<query, cursor, search_pending>>
       ELSE /\ query' = <<>>
            /\ cursor' = 0
            /\ mark_search_pending
            /\ UNCHANGED should_quit
    /\ app_last' = Key
    /\ UNCHANGED <<app_index, app_results, selected, search_scope>>
    /\ Frame

\* maybe_search once the debounce period has elapsed
maybe_search ==
    /\ ~should_quit
    /\ search_pending
    /\ search_pending' = FALSE
    /\ \E o \in App_search(app_index, query, search_scope, app_results, selected) :
          app_results' = o.results /\ selected' = o.selected
    /\ app_last' = Key
    /\ UNCHANGED <<app_index, query, cursor, search_scope, should_quit>>
    /\ Frame

toggle_scope ==
    /\ ~should_quit
    /\ search_scope' = IF search_scope = "Everything" THEN "Folder" ELSE "Everything"
    /\ \E o \in App_search(app_index, query, search_scope', app_results, selected) :
          app_results' = o.results /\ selected' = o.selected
    /\ app_last' = Did("toggle_scope")
    /\ UNCHANGED <<app_index, query, cursor, search_pending, should_quit>>
    /\ Frame

up(sel) == saturating_sub(sel, 1)

on_up ==
    /\ ~should_quit
    /\ selected' = IF app_results # <<>> THEN up(selected) ELSE selected
    /\ app_last' = Moved("on_up")
    /\ UNCHANGED <<app_index, query, cursor, app_results, search_scope, search_pending,
                   should_quit>>
    /\ Frame

\* (mutant) the selection moves down without the clamp
down_unclamped(sel, n) == sel + 1

\* (self.selected + 1).min(self.results.len() - 1)
down(sel, n) == Min(sel + 1, n - 1)

on_down ==
    /\ ~should_quit
    /\ selected' = IF app_results # <<>> THEN down(selected, Len(app_results)) ELSE selected
    /\ app_last' = Moved("on_down")
    /\ UNCHANGED <<app_index, query, cursor, app_results, search_scope, search_pending,
                   should_quit>>
    /\ Frame

\* poll_index_updates on a batch holding NeedsReload or Done: the reader is
\* reloaded on whatever the indexer has committed and the query re-issued
PollReload ==
    /\ ~should_quit
    /\ \E snapshot \in AppIndexes :
          /\ app_index' = snapshot
          /\ \E o \in App_search(snapshot, query, search_scope, app_results, selected) :
                app_results' = o.results /\ selected' = o.selected
    /\ app_last' = Did("poll_index_updates")
    /\ UNCHANGED <<query, cursor, search_scope, search_pending, should_quit>>
    /\ Frame

\* App::new with an empty initial query, on an index of any content
InitApp ==
    /\ app_index \in AppIndexes
    /\ query = <<>>
    /\ cursor = 0
    /\ app_results = <<>>
    /\ selected = 0
    /\ search_scope = "Folder"
    /\ search_pending = FALSE
    /\ should_quit = FALSE
    /\ app_last = [op |-> "none", before |-> "none", at |-> 0]
    /\ IndexerIdle /\ SearchIdle /\ ParseIdle /\ ToolIdle /\ SelIdle /\ ReadIdle

NextApp ==
    \/ on_char
    \/ on_backspace
    \/ on_escape
    \/ maybe_search
    \/ toggle_scope
    \/ on_up
    \/ on_down
    \/ PollReload

SpecApp == InitApp /\ [][NextApp]_vars

\* ----------------------------------------------------------------------
\* Properties
\* ----------------------------------------------------------------------
Last(q) == q[Len(q)]
Types(q) == {q[k].type : k \in 1 .. Len(q)}
TerminalOnlyLast(q) == \A k \in 1 .. Len(q) : Terminal(q[k]) => k = Len(q)

\* C1: in every run of background_index exactly one terminal event is sent
\* and it is the last one: nothing is sent after Done or Error, the two are
\* never both sent, the thread has returned exactly when a terminal event has
\* been sent, Error is what ends a pass that aborts (open, load or writer
\* failure, before any file is handled) and Done what ends one that completes.
\* The same order holds of the messages waiting in the channel.
C1_TerminalEventLast ==
    /\ TerminalOnlyLast(sentLog)
    /\ TerminalOnlyLast(chan)
    /\ (pc = "done") <=> (sentLog # <<>> /\ Terminal(Last(sentLog)))
    /\ pc = "done" /\ Last(sentLog).type = "Error" =>
          /\ ~pass.saved /\ pass.dels = {} /\ ~pass.bulkWrites /\ pass.commits = 0
          /\ Last(sentLog).err \in {"open", "load"} <=> ~pass.didSelect
    /\ pc = "done" /\ Last(sentLog).type = "Done" =>
          /\ pass.didSelect
          /\ (pass.selected # {} \/ pass.selectedBulk > 0) => pass.commits >= 1

\* a pass of more than 200 files has run to its end: Progress, NeedsReload, Done
C1_Witness ==
    /\ pc = "done"
    /\ Last(sentLog).type = "Done"
    /\ Types(sentLog) = {"Progress", "NeedsReload", "Done"}

NoFault == pass.addFailed = {} /\ ~pass.commitFailed
EndedWithDone == pc = "done" /\ Last(sentLog).type = "Done"
\* the pass ran to its end and its file-state store is on disk (or it had nothing to do)
PassSucceeded ==
    /\ EndedWithDone
    /\ pass.saved \/ (pass.selected = {} /\ pass.selectedBulk = 0)

\* C2 (as claimed): after a pass that completes successfully the file-state
\* store has an entry for F iff at least one document of F is in the index
\* (stated for the runs in which no add and no commit has ever failed).
C2_EntryIffIndexed ==
    PassSucceeded /\ NoFault /\ ~carry.fault =>
        \A f \in Files : (fssDisk.files[f] # 0) <=> (Of(idxDocs, f) # {})

\* C3 (as claimed): a pass that starts right after a successful pass, with no
\* transcript changed, issues no delete, no add and no commit.
C3_RerunWritesNothing ==
    carry.rerun =>
        pass.dels = {} /\ ~pass.adds /\ ~pass.bulkWrites /\ pass.commits = 0

\* C3 (amended): such a pass adds no document and deletes only for the files
\* that parse to zero messages or fail to parse (they were not recorded, so
\* they are selected again, and a commit follows); when every discovered file
\* parses to at least one message it issues no write at all.
C3_RerunWritesOnlyForUnindexed ==
    carry.rerun =>
        /\ ~pass.adds /\ ~pass.bulkWrites
        /\ pass.dels \subseteq {f \in Files : fs[f].n < 1}
        /\ (\A f \in Files : fs[f].n >= 1) =>
               pass.dels = {} /\ pass.commits = 0 /\ writer = "none"

\* a second pass over unchanged files (200 bulk files and one transcript with
\* messages) has found nothing to do
C3_Witness ==
    /\ carry.rerun /\ EndedWithDone
    /\ bulkN > 0 /\ \A f \in Files : fs[f].n >= 1
    /\ idxBulk = bulkN /\ \A f \in Files : Of(idxDocs, f) = DocsOf(f)

\* the documents of one parsed version of a file, all of them: one per
\* message index 0 .. n-1, or none
WholeVersion(docs, f) ==
    \/ Of(docs, f) = {}
    \/ \E d \in Of(docs, f) :
          /\ d.of >= 1
          /\ Of(docs, f) = {[file |-> f, ver |-> d.ver, of |-> d.of, idx |-> k] :
                              k \in 0 .. d.of - 1}

NeedsReloadsSent == Cardinality({k \in 1 .. Len(sentLog) : sentLog[k].type = "NeedsReload"})

C6_StoppedIffDisconnectedWhileIndexing ==
    appAlive =>
        /\ (index_error = StoppedUnexpectedly) <=>
               (seen.disconnect /\ seen.terminal = "none")
        /\ seen.disconnect => ~indexing /\ ~index_rx
        /\ seen.disconnect /\ seen.terminal = "none" => pc = "dead"
        /\ pc = "dead" /\ ~index_rx => index_error = StoppedUnexpectedly
        /\ (sentLog # <<>> /\ Last(sentLog).type = "Done") => index_error = "none"
        /\ seen.terminal = "Done" => index_error = "none" /\ ~indexing
        /\ indexing <=> (index_rx /\ seen.terminal = "none")

\* the indexer died after a progress report; the foreground has noticed
C6_Witness ==
    /\ appAlive /\ pc = "dead" /\ sentLog # <<>>
    /\ index_error = StoppedUnexpectedly /\ ~indexing
    /\ status = ErrorStatus /\ total_sessions > 0

\* C7: once the foreground has seen Error, no event changes status,
\* total_sessions, indexing or index_error, and none triggers a reload or a
\* search: no event is applied after Error in the same batch, and later polls
\* find the receiver dropped.
C7_ErrorIsTerminal ==
    /\ [](~seen.afterError)
    /\ [](appAlive /\ seen.terminal = "Error" =>
            ~index_rx /\ ~indexing /\ status = ErrorStatus
            /\ index_error \in {"open", "load", "writer"})
    /\ [][appAlive /\ seen.terminal = "Error" =>
            \/ ~appAlive'
            \/ UNCHANGED <<status, total_sessions, indexing, index_error,
                           index_rx, reader, searchGen, seen>>]_vars

\* the foreground has consumed the Error of a writer that could not be created
C7_Witness ==
    /\ appAlive /\ seen.terminal = "Error" /\ index_error = "writer"
    /\ pc = "done" /\ chan = <<>>

\* C8 (as claimed): once a send has failed because the receiver is gone, the
\* indexer handles no further file.
C8_StopsAfterFailedSend == ~pass.procAfterSendFail

\* C9 (as claimed): when an add or a commit has failed, no further file is
\* handled, the failing file is not in the file-state store that is saved,
\* and the pass does not end with Done.
C9_WriteFailureAborts ==
    /\ ~pass.procAfterFault
    /\ ~NoFault => ~(sentLog # <<>> /\ Last(sentLog).type = "Done")
    /\ pass.saved => \A f \in pass.addFailed : fssDisk.files[f] # get_file_state(f)

\* what a pass that runs to its end without a write failure leaves in the
\* index, given the index at the last save: the current documents of every
\* selected file, the other files untouched
ExpectedDocs(f) == IF f \in pass.selected THEN DocsOf(f) ELSE Of(carry.baseDocs, f)
ExpectedBulk == IF pass.selectedBulk > 0 THEN bulkN ELSE carry.baseBulk

\* C10: the file-state store is written only by the save that follows the
\* final commit; a pass that follows passes cut short before their save
\* selects again every file they handled; and when it reaches its own save
\* after its final commit the index holds what one uninterrupted pass from the
\* last saved state would have produced.
C10_SaveLastAndRerunRepairs ==
    /\ [][fssDisk' # fssDisk => pc = "save" /\ pc' = "sendDone"]_vars
    /\ [](pass.saved => pc \in {"sendDone", "done"})
    /\ [](pass.didSelect =>
            /\ carry.mustRedo \subseteq pass.selected
            /\ carry.mustRedoBulk => pass.selectedBulk = bulkN)
    /\ [](pc = "save" /\ NoFault =>
            /\ \A f \in Files : Of(idxDocs, f) = ExpectedDocs(f)
            /\ idxBulk = ExpectedBulk)

\* a pass was cut short after its periodic commit had published the first
\* version of a transcript; the next pass has indexed everything again,
\* with the transcript rewritten in between, and stands before its save
C10_Witness ==
    /\ pc = "save" /\ NoFault /\ carry.afterInterrupt
    /\ carry.mustRedo = Files /\ carry.mustRedoBulk
    /\ carry.baseDocs = {} /\ carry.baseBulk = 0
    /\ idxGen >= 3
    /\ \A f \in Files : fs[f].ver = 2 /\ fs[f].n = 2 /\ Of(idxDocs, f) = DocsOf(f)
    /\ idxBulk = bulkN /\ bulkN > 0

\* C11 (as claimed): when the parse of a file failed during a pass that ran to
\* its end, the file-state store written by the pass has no entry for the
\* file, and every pass selects a file whose parse fails.
C11_FailedParseLeavesNoEntry ==
    \A f \in Files : fs[f].n = ParseErr =>
        /\ PassSucceeded /\ NoFault /\ ~carry.fault /\ f \in pass.dels =>
               fssDisk.files[f] = 0
        /\ pass.didSelect => f \in pass.selected

DistinctSessions(out) == \A j, k \in DOMAIN out : j # k => out[j].sid # out[k].sid
CallsOf(op) == {k \in DOMAIN results : results[k].op = op}

\* C13: whatever the snapshot and the limit L, search returns at most L
\* results and no two of them carry the same session id.
C13_SearchAtMostLimitDistinct ==
    \A k \in CallsOf("search") :
        /\ Len(results[k].out) <= limit
        /\ DistinctSessions(results[k].out)

\* search with limit 1 on a snapshot in which two sessions match, one of them
\* with two documents: one result
C13_Witness ==
    /\ limit = 1 /\ Len(snapDocs) = 3
    /\ \A a \in DOMAIN snapDocs : snapDocs[a].score > 0
    /\ {snapDocs[a].sid : a \in DOMAIN snapDocs} = Sids
    /\ \E k \in CallsOf("search") : Len(results[k].out) = 1

\* C14: whatever the snapshot and the limit, recent lists each session at most
\* once, lists only sessions that have a document, at most limit of them, and
\* in non-increasing order of session timestamp.
C14_RecentOncePerSessionDescending ==
    \A k \in CallsOf("recent") :
        LET out == results[k].out IN
        /\ DistinctSessions(out)
        /\ Len(out) <= limit
        /\ \A j \in DOMAIN out : \E a \in DOMAIN snapDocs : snapDocs[a].sid = out[j].sid
        /\ \A j \in DOMAIN out : j > 1 => out[j - 1].ts >= out[j].ts

\* recent has listed two sessions, the newer one first, on a snapshot that
\* holds the older session's documents first and two documents of one session
C14_Witness ==
    /\ limit = 2 /\ Len(snapDocs) = 3
    /\ snapDocs[1].ts < snapDocs[3].ts /\ snapDocs[1].sid # snapDocs[3].sid
    /\ \E k \in CallsOf("recent") :
          /\ Len(results[k].out) = 2
          /\ results[k].out[1].sid = snapDocs[3].sid
          /\ results[k].out[1].ts > results[k].out[2].ts

\* C15 (as claimed): two calls of search on the same snapshot, with the same
\* query and limit at the same instant, return the same sequence, and results
\* of equal final score come in the order of their session ids.
C15_SearchOrderDeterministic ==
    /\ \A j, k \in CallsOf("search") : results[j].out = results[k].out
    /\ \A k \in CallsOf("search") :
          LET out == results[k].out IN
          \A j \in DOMAIN out :
              j > 1 /\ Final(out[j - 1]) = Final(out[j]) =>
                  out[j - 1].sid = "s1" /\ out[j].sid = "s2"

\* the session id the parser gives the session of file f (the file stem
\* unless a record names one)
session_id(f) == <<"id", f>>

\* a reader snapshot as the query engine sees it: the documents of the
\* followed files and one document standing for the bulk files, in any
\* address order
AsSnapshot(snap) ==
    LET D == {[sid |-> session_id(d.file), file_path |-> d.file, ts |-> d.ver,
               idx |-> d.idx, score |-> 0] : d \in snap.docs}
             \cup (IF snap.bulk > 0
                   THEN {[sid |-> session_id("bulk"), file_path |-> "bulk",
                          ts |-> 1, idx |-> 0, score |-> 0]}
                   ELSE {})
    IN  Perms(D)

\* the pass has handled f and published its writes
Published(f) ==
    /\ pc \in {"save", "sendDone", "done"}
    /\ f \in pass.dels
    /\ NoFault

Pushed(now) ==
    CASE source.parser = "claude" -> ClaudeLoop(lines, 1, now, Loop0).messages
      [] source.parser = "codex" -> CodexLoop(lines, 1, now, Loop0).messages
      [] source.parser = "factory" -> PlainLoop(lines, 1, now, Loop0).messages
      [] source.parser = "opencode" -> PlainLoop(SortByCreated(lines), 1, now, Loop0).messages

\* the merge as claimed: each maximal run of same-role messages becomes one
\* message, contents joined by a blank line in order, the latest timestamp
RECURSIVE MergedAsClaimed(_, _, _)
MergedAsClaimed(messages, k, acc) ==
    IF k > Len(messages) THEN acc
    ELSE LET msg == messages[k]
             n == Len(acc)
         IN  IF n > 0 /\ acc[n].role = msg.role
             THEN MergedAsClaimed(messages, k + 1,
                      [acc EXCEPT ![n] = [@ EXCEPT
                          !.content = @ \o <<Separator>> \o msg.content,
                          !.timestamp = Max(@, msg.timestamp)]])
             ELSE MergedAsClaimed(messages, k + 1, Append(acc, msg))

\* C16 (as claimed): for each of the four parsers and every file, the parsed
\* Session has no two adjacent messages of the same role, and its messages are
\* the runs of same-role messages merged: contents joined by a blank line in
\* order, timestamp the latest of the merged messages.
C16_AdjacentRolesDifferAndMerged ==
    \A k \in DOMAIN parsed :
        LET ms == parsed[k].session.messages
            want == MergedAsClaimed(Pushed(parsed[k].at), 1, <<>>)
        IN  /\ \A j \in 1 .. Len(ms) - 1 : ms[j].role # ms[j + 1].role
            /\ Len(ms) = Len(want)
            /\ \A j \in DOMAIN ms :
                  /\ ms[j].role = want[j].role
                  /\ ms[j].content = want[j].content
                  /\ ms[j].timestamp = want[j].timestamp

\* the tool_result blocks of the file that carry a given tool_use_id
ResultsFor(id) ==
    {r \in UNION {{lines[k].res[j] : j \in DOMAIN lines[k].res} : k \in DOMAIN lines} :
        r.tool_use_id = id}

\* C17 (as claimed): after parsing, every ToolCall whose tool_use_id has a
\* tool_result anywhere in the file has status success or error (error iff
\* the result is flagged is_error) and an output; every ToolCall without a
\* matching result is pending and has no output.
C17_ToolCallsMatched ==
    \A k \in DOMAIN parsed :
        LET ms == parsed[k].session.messages IN
        \A j \in DOMAIN ms : \A c \in DOMAIN ms[j].tool_calls :
            LET call == ms[j].tool_calls[c]
                rs == ResultsFor(call.tool_use_id)
            IN  IF rs = {}
                THEN call.status = "pending" /\ call.output = <<>>
                ELSE /\ call.status \in {"success", "error"}
                     /\ call.output # <<>>
                     /\ call.status = "error" => \E r \in rs : r.is_error
                     /\ call.status = "success" => \E r \in rs : ~r.is_error

\* C18 (as claimed): two invocations of parse on the unchanged file return
\* the same Session, also when records carry no timestamp.
C18_ParseIdempotent ==
    \A j, k \in DOMAIN parsed : parsed[j].session = parsed[k].session

\* C19 (as claimed): the timestamp of a parsed Session is the maximum
\* timestamp of the messages it contains, or the parse time when it contains
\* none; dropped records have no influence on it.
C19_SessionTimestampIsMaxOfMessages ==
    \A k \in DOMAIN parsed :
        LET s == parsed[k].session IN
        IF s.messages = <<>>
        THEN s.timestamp = parsed[k].at
        ELSE s.timestamp = MaxOf({s.messages[j].timestamp : j \in DOMAIN s.messages})

TwoKiB == 2 * 1024

\* the character boundaries of a content string
Boundaries(c) == char_indices(c) \cup {len(c)}

\* C20: for every content string and error flag, ToolOutput::new returns
\* total_bytes equal to the original length; an output that is not truncated
\* holds the original content; a truncated output holds a non-empty prefix of
\* the original, the marker and a non-empty suffix of the original, cut at
\* character boundaries, prefix and suffix together at most 2 KiB; and a
\* result flagged as error is never truncated.
C20_ToolOutputBounds ==
    \A k \in DOMAIN toolOut : toolOut[k].op = "new" =>
        LET c == toolIn.content
            o == toolOut[k].out
        IN  /\ o.total_bytes = len(c)
            /\ ~o.truncated => o.content = Whole(c)
            /\ o.truncated =>
                  /\ Len(o.content) = 3
                  /\ o.content[1].kind = "bytes" /\ o.content[1].from = 0
                  /\ o.content[2].kind = "marker"
                  /\ o.content[3].kind = "bytes" /\ o.content[3].to = len(c)
                  /\ o.content[1].to \in Boundaries(c) \ {0}
                  /\ o.content[3].from \in Boundaries(c) \ {len(c)}
                  /\ o.content[1].to <= o.content[3].from
                  /\ o.content[1].to + (len(c) - o.content[3].from) <= TwoKiB
            /\ toolIn.is_error => ~o.truncated

\* a long output that is no error has been truncated; its prefix ends three
\* bytes after KEEP_BYTES because a four-byte character straddles the mark
C20_Witness ==
    /\ toolOut # <<>> /\ toolOut[1].op = "new"
    /\ len(toolIn.content) > MAX_BYTES /\ ~toolIn.is_error
    /\ toolOut[1].out.truncated
    /\ toolOut[1].out.content[1].to = KEEP_BYTES + 3

\* the hits of session sid that search has fetched
HitsOf(sid) ==
    LET top_docs == TopDocs(snapDocs, limit * FetchFactor)
    IN  {top_docs[k] : k \in {j \in DOMAIN top_docs : top_docs[j].sid = sid}}

\* C26 (as claimed): the message search keeps for a session maximises
\* score + 0.01 * message_index over all hits of that session.
C26_KeptMessageMaximisesBonus ==
    \A k \in CallsOf("search") : \A j \in DOMAIN results[k].out :
        LET r == results[k].out[j] IN
        \E d \in HitsOf(r.sid) :
            /\ d.idx = r.matched_message_index
            /\ \A e \in HitsOf(r.sid) :
                  e.score + RecencyBonus(e.idx) <= d.score + RecencyBonus(d.idx)

RECURSIVE Concat(_, _)
Concat(seqs, k) == IF k > Len(seqs) THEN <<>> ELSE seqs[k] \o Concat(seqs, k + 1)

\* the ids of the tool calls of a sequence of messages, in order
ToolUseIds(messages) ==
    Concat([j \in DOMAIN messages |->
               [c \in DOMAIN messages[j].tool_calls |->
                   messages[j].tool_calls[c].tool_use_id]], 1)

\* C28 (as claimed): merging consecutive same-role messages loses no tool
\* call: the tool calls of the parsed Session are, in order, the tool calls of
\* the messages the parser pushed.
C28_JoinKeepsToolCalls ==
    \A k \in DOMAIN parsed :
        ToolUseIds(parsed[k].session.messages) = ToolUseIds(Pushed(parsed[k].at))

\* the events a pass over n files sends, in order: each with the file after
\* which it is sent (n + 1 for Done) and its rank among that file's events
Events(n) ==
    LET E == {[at |-> k, rank |-> 0,
               ev |-> [type |-> "Progress", indexed |-> k, total |-> n]] :
                  k \in {j \in 1 .. n : j % ProgressEvery = 0 \/ j = n}}
             \cup {[at |-> k, rank |-> 1, ev |-> [type |-> "NeedsReload"]] :
                  k \in {j \in 1 .. n : j % CommitEvery = 0}}
             \cup {[at |-> n + 1, rank |-> 0, ev |-> [type |-> "Done"]]}
        Before(x, y) == x.at < y.at \/ (x.at = y.at /\ x.rank < y.rank)
    IN  [r \in 1 .. Cardinality(E) |->
            (CHOOSE y \in E : Cardinality({x \in E : Before(x, y)}) = r - 1).ev]

\* an event as the claim describes it: Progress with its counts, the others
\* by their type
Described(m) == IF m.type = "Progress" THEN m ELSE [type |-> m.type]

\* the files the pass has to index
PassSize == Cardinality(pass.selected) + pass.selectedBulk

\* C27: the events of a pass that indexes n files are determined by n. What
\* the pass has sent is at every moment the beginning of: for k = 1 .. n a
\* Progress{k, n} if k is a multiple of 50 or k = n, then a NeedsReload if k
\* is a multiple of 200, and Done at the end; each NeedsReload follows a
\* commit of its own; Done follows the final commit and ends the sequence; a
\* pass with nothing to index sends only Done.
C27_EventsDeterminedByCount ==
    pass.didSelect /\ (sentLog = <<>> \/ Last(sentLog).type # "Error") =>
        LET want == Events(PassSize)
            sent == [k \in DOMAIN sentLog |-> Described(sentLog[k])]
        IN  /\ Len(sent) <= Len(want)
            /\ sent = SubSeq(want, 1, Len(sent))
            /\ NeedsReloadsSent <= pass.commits
            /\ pc = "done" /\ sentLog # <<>> =>
                  /\ sent = want
                  /\ PassSize > 0 => pass.commits = PassSize \div CommitEvery + 1

\* a pass over 201 files has ended: four reports, the periodic commit and its
\* NeedsReload, the last report, the final commit, Done
C27_Witness ==
    /\ pc = "done" /\ PassSize = CommitEvery + 1
    /\ Len(sentLog) = 7
    /\ sentLog[5].type = "NeedsReload"
    /\ sentLog[6] = [type |-> "Progress", indexed |-> PassSize, total |-> PassSize]
    /\ sentLog[7].type = "Done"
    /\ pass.commits = 2

\* C24 (as claimed): loading a state file whose version is not the current
\* schema version yields a store without entries, so the pass that follows
\* selects every discovered file.
C24_OtherVersionStartsEmpty ==
    fssDisk.version # CURRENT_VERSION =>
        /\ pc = "discover" => state.files = EmptyState.files /\ state.bulk = 0
        /\ pass.didSelect => pass.selected = Files /\ pass.selectedBulk = bulkN

\* ---- C22 ----
\* The selector grammar as the claim words it.  A decimal natural is a
\* non-empty string of digits, standing for its value.
Natural(s) == s # <<>> /\ \A p \in DOMAIN s : s[p] \in Digits

\* The results the grammar allows for a remainder: one per way of reading
\* it as 'errors', 'N.K', '-N', 'N-M' or 'N'.
Readings(id, rest) ==
    LET Cut(c) == {p \in DOMAIN rest :
                      /\ rest[p] = c
                      /\ Natural(SubSeq(rest, 1, p - 1))
                      /\ Natural(SubSeq(rest, p + 1, Len(rest)))}
    IN  {SelMessage(id, "Errors", 0, 0) : x \in {1} \cap (IF rest = Keyword THEN {1} ELSE {})}
        \cup {SelTool(id, Decimal(SubSeq(rest, 1, p - 1)),
                          Decimal(SubSeq(rest, p + 1, Len(rest)))) : p \in Cut(".")}
        \cup {SelMessage(id, "Range", Decimal(SubSeq(rest, 1, p - 1)),
                                      Decimal(SubSeq(rest, p + 1, Len(rest)))) : p \in Cut("-")}
        \cup {SelMessage(id, "Last", Decimal(Tail(rest)), 0) :
                 x \in {1} \cap (IF rest # <<>> /\ rest[1] = "-" /\ Natural(Tail(rest))
                                 THEN {1} ELSE {})}
        \cup {SelMessage(id, "Single", Decimal(rest), 0) :
                 x \in {1} \cap (IF Natural(rest) THEN {1} ELSE {})}

\* C22: parse_selector trims; no ':' gives Session{id}; otherwise the
\* remainder after the first ':' is read as 'errors', 'N.K', '-N', 'N-M' or
\* 'N' with N, M, K decimal naturals; empty input gives EmptyInput, every
\* other remainder a SelectorError; session_id() is the text before the
\* first ':'.
C22_SelectorGrammar ==
    selOut # <<>> =>
        LET t == trim(selIn)
            r == selOut[1]
            Colons == {p \in DOMAIN t : t[p] = ":"}
        IN  /\ t = <<>> => r = Err("EmptyInput")
            /\ t # <<>> /\ Colons = {} =>
                  r = SelSession(t) /\ Selector_session_id(r) = t
            /\ Colons # {} =>
                  LET p    == CHOOSE c \in Colons : \A d \in Colons : c <= d
                      id   == SubSeq(t, 1, p - 1)
                      rest == SubSeq(t, p + 1, Len(t))
                  IN  IF Readings(id, rest) = {}
                      THEN r.kind = "Err"
                      ELSE r \in Readings(id, rest) /\ Selector_session_id(r) = id


\* ---- C21 ----
\* C21: the disable_truncation flag is true only while a --full read is
\* parsing its session; no ToolOutput produced by a --full read is
\* truncated; the flag is false again when the read has finished, on every
\* path, a failed parse included; a read without --full never sets it.
C21_FlagOnlyWhileParsing ==
    /\ disable_truncation => readIn.full /\ readPc \in {"parse", "reset"}
    /\ readIn.full /\ readSession # <<>> =>
          \A k \in DOMAIN readSession[1] :
              \A t \in DOMAIN readSession[1][k].tool_calls :
                  ~readSession[1][k].tool_calls[t].output.truncated
    /\ readPc \in {"done", "failed"} => ~disable_truncation

\* ---- C23 ----
\* the numbers lo .. hi in order
Interval(lo, hi) == [k \in 1 .. (IF hi >= lo THEN hi - lo + 1 ELSE 0) |-> lo + k - 1]

\* C23: with T messages, before-context b and after-context a (each
\* defaulting to the -C value, else 0), read prints exactly the messages
\* max(1,N-b)..min(T,N+a) for ':N' and ':N.K', max(1,N-b)..min(T,M+a) for
\* ':N-M', and the last min(N,T) messages preceded by up to b more for
\* ':-N'; it fails without output when N = 0, N > T, M > T, N > M or K is
\* not a tool of message N.
C23_ReadWindow ==
    readPc \in {"done", "failed"} /\ readSession # <<>> =>
        LET sel == parse_selector(readIn.selector_str)
            msgs == readSession[1]
            T == Len(msgs)
            b == IF readIn.before # <<>> THEN readIn.before[1]
                 ELSE IF readIn.context # <<>> THEN readIn.context[1] ELSE 0
            a == IF readIn.after # <<>> THEN readIn.after[1]
                 ELSE IF readIn.context # <<>> THEN readIn.context[1] ELSE 0
            N == sel.message.a
            M == sel.message.b
            out == readOut[1]
            Fails == out.status # "ok" /\ out.messages = <<>>
            Prints(lo, hi) == out.status = "ok" /\ out.messages = Interval(lo, hi)
        IN  /\ sel.kind = "Message" /\ sel.message.kind = "Single" =>
                  IF N = 0 \/ N > T THEN Fails
                  ELSE Prints(Max(1, N - b), Min(T, N + a))
            /\ sel.kind = "Tool" =>
                  IF N = 0 \/ N > T THEN Fails
                  ELSE IF M \notin DOMAIN msgs[N].tool_calls THEN Fails
                  ELSE Prints(Max(1, N - b), Min(T, N + a))
            /\ sel.kind = "Message" /\ sel.message.kind = "Range" =>
                  IF N = 0 \/ N > T \/ M > T \/ N > M THEN Fails
                  ELSE Prints(Max(1, N - b), Min(T, M + a))
            /\ sel.kind = "Message" /\ sel.message.kind = "Last" =>
                  Prints(Max(1, T - Min(N, T) - b + 1), T)

\* ---- C25 ----
\* C25: for every session recent lists, get_by_id on its session id and a
\* parse of the returned, unchanged file give a Session whose timestamp is
\* the timestamp of the recent entry (which recent rebuilds from the stored
\* seconds with from_timestamp).
C25_RecentTimestampIsParsedTimestamp ==
    Len(parsed) = 2 /\ results # <<>> =>
        \A j \in DOMAIN results[1].out :
            LET r == results[1].out[j] IN
            r.sid = "s1" /\ get_by_id(snapDocs, r.sid) = "f1" =>
                parsed[2].session.timestamp = from_timestamp(SessionTimestamp(r))

\* ---- C29 ----
\* C29: after any sequence of on_up, on_down, search, toggle_scope, query
\* edits and poll_index_updates the selection is in bounds: selected <
\* |results| when results is not empty, selected = 0 when it is; on_down
\* from the last result and on_up from the first leave selected unchanged.
C29_SelectionInBounds ==
    /\ IF app_results = <<>> THEN selected = 0 ELSE selected < Len(app_results)
    /\ app_last.op = "on_down" /\ app_last.at + 1 = Len(app_results) =>
          selected = app_last.at
    /\ app_last.op = "on_up" /\ app_last.at = 0 => selected = 0

C29_Witness ==
    /\ app_last.op = "on_down"
    /\ Len(app_results) = 2
    /\ app_last.at = 1
    /\ selected = 1

\* ---- C30 ----
Requery == {"poll_index_updates", "toggle_scope"}

\* C30: when the foreground re-issues the current query (after NeedsReload,
\* Done or a scope toggle), the selection follows the session: a session
\* selected before that is still among the results is selected at its new
\* position, otherwise the first result is selected.
C30_SelectionFollowsSession ==
    app_last.op \in Requery =>
        IF \E k \in DOMAIN app_results : app_results[k].sid = app_last.before
        THEN selected_session_id(app_results, selected) = app_last.before
        ELSE selected = 0

C30_Witness ==
    /\ app_last.op = "poll_index_updates"
    /\ app_last.before # "none"
    /\ selected_session_id(app_results, selected) = app_last.before
    /\ selected # app_last.at
    /\ selected > 0
====
